---------------------------- MODULE Spec2Model ----------------------------
(***************************************************************************)
(* A model of beatsaber-hook's hand-written AArch64 instruction decoder    *)
(* (shared/utils/instruction-parsing.cpp): the logical-immediate bit-mask  *)
(* decode, the Instruction constructor, the ADRP+ADD address resolution,   *)
(* and the dependency-tracking traversal driven by AssemblyFunction.       *)
(*                                                                         *)
(* Number representation.  TLC's integers are 32 bits wide, the program's  *)
(* are up to 64.  A machine word is therefore modelled as the set of the   *)
(* positions of its one-bits: a 32-bit code word is a subset of 0..31, a   *)
(* uint64_t / int64_t (two's complement) a subset of 0..63.  Small fields  *)
(* (register numbers, immediates of at most 26 bits) are plain integers.   *)
(***************************************************************************)
EXTENDS Integers, Sequences, FiniteSets, TLC

VARIABLES
    \* ---- DecodeBitMasks harness ----
    dbmArgs,        \* the arguments <<N, imms, immr, regSize>> of one call
    dbmRet,         \* "none" before the call, afterwards the returned uint64_t
    \* ---- Instruction constructor harness ----
    code,           \* the 32-bit code word under the pointer
    iaddr,          \* the pointer (the instruction's address), an int64
    inst,           \* "none" before construction, afterwards the record
    ctorOutcome,    \* "pending", "constructed" or "aborted"
    instAgain,      \* None, or the record of a second construction from the same pointer
    \* ---- ExtractAddress harness ----
    adrCode,        \* the code word of instWithResultAdr (an ADR / ADRP)
    addCode,        \* the code word of instWithImmOffset, one word after it
    eaPc,           \* the address of instWithResultAdr
    eaRet,          \* None before the call, afterwards the returned int64_t
    \* ---- AssemblyFunction (the traversal) ----
    mem,            \* the code region: word index -> code word, never written
    entry,          \* the pointer AssemblyFunction is constructed with
    nodes,          \* the heap of InstructionTree objects, in allocation order
    parseState,     \* struct ParseState
    drv,            \* where the constructor is: "start", "loop", "done", "aborted"
    expansions,     \* history: the PopulateChildren calls in order, each with its
                    \* node and the active dependency map before and after it
    \* ---- EvalSwitch / cs::evalswitch harness ----
    switchTable,    \* the address of the jump table, a uint64
    tableEntries,   \* the 32-bit words stored at switchTable, in order
    switchCaseValue,\* the 1-based case number
    targetWord,     \* the code word stored at the jump target
    evalSwitchRet,  \* None, or the Instruction EvalSwitch returned
    csEvalswitchRet,\* None, or the pointer cs::evalswitch returned
    \* ---- cs::findNth harness ----
    window,         \* the instructions at addr, addr + 4, ... as the disassembler sees them
    nToRetOn,       \* template argument: which counted instruction to return on
    retCount,       \* template argument: the return cap, -1 for none
    szBytes,        \* template argument: the byte budget
    skipIds,        \* the instruction ids the skip predicate accepts
    fnPc,           \* "entry", "loop", "returned", "abortRets", "abortSkip", "abortSize"
    rCount,         \* local int rCount
    nCalls,         \* local uint32_t nCalls
    sz,             \* local size_t sz
    ptr,            \* local uint64_t ptr: the address of the next instruction
    fnRet,          \* None, or the value findNth returned
    asked,          \* history: <<address, predicate>> for every predicate call
    \* ---- Counter, CountPointer and SafePtr ----
    addrRefCount,   \* Counter::addrRefCount: a map from addresses to counts
    crashed,        \* whether the process has been ended by a fault or an abort
    lastCall,       \* history: None, or the last Counter call with the map before it
    objState,       \* per object: "unborn", "live" or "destroyed"
    objPtr,         \* per object: CountPointer::ptr (of internalHandle for a SafePtr)
    objOwns,        \* history: whether the object took part in the count of its ptr
    gcHeap,         \* the wrappers the GC holds: handle -> instancePointer
    lastFree,       \* history: None, or the last GC_free call with who else held the handle
    dtorPc          \* per object: where the thread running its ~SafePtr is

dbmVars == <<dbmArgs, dbmRet>>
ctorVars == <<code, iaddr, inst, ctorOutcome, instAgain>>
travVars == <<mem, entry, nodes, parseState, drv, expansions>>
eaVars == <<adrCode, addCode, eaPc, eaRet>>
swVars == <<switchTable, tableEntries, switchCaseValue, targetWord, evalSwitchRet, csEvalswitchRet>>
fnVars == <<window, nToRetOn, retCount, szBytes, skipIds, fnPc, rCount, nCalls, sz, ptr, fnRet, asked>>
rcVars == <<addrRefCount, crashed, lastCall, objState, objPtr, objOwns, gcHeap, lastFree, dtorPc>>
vars == <<dbmVars, ctorVars, eaVars, travVars, swVars, fnVars, rcVars>>

-----------------------------------------------------------------------------
(* Bit-field codec *)

\* 2^n for n in 0..30.
Pow2(n) == 2 ^ n

\* The one-bits of the non-negative integer n among its low w bits (w <= 31).
ToBits(n, w) == {i \in 0..(w - 1) : (n \div Pow2(i)) % 2 = 1}

RECURSIVE FromBits(_)
\* The non-negative integer whose one-bits are s (s within 0..30).
FromBits(s) ==
    IF s = {} THEN 0
    ELSE LET m == CHOOSE i \in s : TRUE
         IN Pow2(m) + FromBits(s \ {m})

AllOnes64 == 0..63

\* bits(x, hi, lo): the unsigned field x[hi:lo] of a code word, as an integer.
bits(x, hi, lo) == FromBits({i - lo : i \in x \cap (lo..hi)})

\* trunc(x, n): the low n bits of x.
trunc(x, n) == x \cap (0..(n - 1))

\* HighestSetBit(x, n): index of the highest one-bit among the low n bits, -1 if none.
HighestSetBit(x, n) ==
    LET s == x \cap (0..(n - 1))
    IN IF s = {} THEN -1 ELSE CHOOSE i \in s : \A j \in s : j <= i

\* ROR(x, nbits, shift): rotate the nbits-wide element x right by shift.
ROR(x, nbits, shift) == {(i + nbits - (shift % nbits)) % nbits : i \in x \cap (0..(nbits - 1))}

\* x << n on a 64-bit unsigned value: bits shifted past bit 63 are lost.
Shl64(x, n) == {i + n : i \in x} \cap (0..63)

\* x << n on a 32-bit value: bits shifted past bit 31 are lost.
Shl32(x, n) == {i + n : i \in x} \cap (0..31)

\* SignExtend<int64_t>(x, numBits): x is a bit set; bit numBits-1 is the sign.
SignExtend64(x, numBits) ==
    IF (numBits - 1) \in x THEN (x \cap (0..(numBits - 1))) \cup (numBits..63)
    ELSE x \cap (0..(numBits - 1))

\* ZeroExtend<int64_t>(x, numBits).
ZeroExtend64(x, numBits) == x \cap (0..(numBits - 1))

\* a + b on 64-bit values, wrapping at 2^64.  The carry into bit i is 1 iff
\* some lower bit j generates a carry (both operands have it) and every bit
\* between j and i propagates it (at least one operand has it).
CarryInto(a, b, i) ==
    \E j \in 0..(i - 1) : j \in a /\ j \in b /\ \A k \in (j + 1)..(i - 1) : k \in a \/ k \in b

Add64(a, b) == {i \in 0..63 : ((i \in a) # (i \in b)) # CarryInto(a, b, i)}

\* Two's complement negation of an int64_t.
Neg64(a) == Add64((0..63) \ a, {0})

-----------------------------------------------------------------------------
(* DecodeBitMasks *)

RECURSIVE Replicate(_, _, _)
\* while (size < regSize) { pattern |= (pattern << size); size *= 2; }
Replicate(pattern, size, regSize) ==
    IF size < regSize
    THEN Replicate(pattern \cup Shl64(pattern, size), size * 2, regSize)
    ELSE pattern

\* The same function with the N bit left out of the element-length computation.
DecodeBitMasksNoN(N, imms, immr, regSize) ==
    LET len == HighestSetBit(trunc((0..6) \ ToBits(imms, 6), 6), 7)
    IN IF len < 1 THEN AllOnes64
       ELSE LET size == Pow2(len)
                levels == size - 1
                R == immr % size
                S == imms % size
            IN IF S = levels THEN AllOnes64
               ELSE Replicate(ROR(0..S, size, R), size, regSize)

\* The same function rotating the element left instead of right.
DecodeBitMasksRotL(N, imms, immr, regSize) ==
    LET len == HighestSetBit((IF N = 1 THEN {6} ELSE {}) \cup trunc((0..6) \ ToBits(imms, 6), 6), 7)
    IN IF len < 1 THEN AllOnes64
       ELSE LET size == Pow2(len)
                levels == size - 1
                R == immr % size
                S == imms % size
            IN IF S = levels THEN AllOnes64
               ELSE Replicate(ROR(0..S, size, size - R), size, regSize)

DecodeBitMasks(N, imms, immr, regSize) ==
    LET len == HighestSetBit((IF N = 1 THEN {6} ELSE {}) \cup trunc((0..6) \ ToBits(imms, 6), 6), 7)
    IN IF len < 1 THEN AllOnes64                       \* return -1
       ELSE LET size == Pow2(len)                      \* 1 << len
                levels == size - 1
                R == immr % size                       \* immr & levels
                S == imms % size                       \* imms & levels
            IN IF S = levels THEN AllOnes64            \* return -1
               ELSE Replicate(ROR(0..S, size, R), size, regSize)

-----------------------------------------------------------------------------
(* The Instruction record.  An optional field (std::optional) is a sequence *)
(* of length 0 (no value) or 1.  kind[] is the sequence of the labels       *)
(* assigned so far, so parseLevel is Len(kind).  The kind strings are the   *)
(* source's, with its em dash written "--".                                 *)

None == <<>>
Some(v) == <<v>>
HasValue(o) == Len(o) = 1
Value(o) == o[1]

\* Register::RZR, Register::SP (both 31) and Register::RLINK (30).
RZR == 31
SP == 31
RLINK == 30

\* sizeof(kind) / sizeof(kind[0])
KindLevels == 3

unalloc == "UNALLOCATED"
pcRelAddr == "PC-rel. addressing"
ldSt == "Loads and Stores"
addSubImm == "Add/subtract (immediate)"

\* enum ShiftType, enum ExtendType: the values the field encodings are cast to.
LSL == 0
ShiftROR == 3
UXTW == 2
UXTX == 3

\* The members' values before the constructor body runs; result starts
\* unassigned (an int64_t without initialiser), modelled as an empty optional.
InstructionDefaults(pc) ==
    [addr |-> pc, kind |-> <<>>, parsed |-> FALSE, valid |-> TRUE,
     Rd |-> -1, Rd2 |-> -1, RdCanBeSP |-> FALSE, Rs0CanBeSP |-> FALSE,
     numSourceRegisters |-> -1, Rs |-> <<-1, -1, -1>>,
     imm |-> None, result |-> None, label |-> None,
     branchType |-> "NOBRANCH", cond |-> None,
     shiftType |-> None, extendType |-> None, wback |-> None, postindex |-> None]

\* kind[parseLevel++] = k
K(r, k) == [r EXCEPT !.kind = Append(@, k)]

\* An integer field value (< 2^31) as an int64_t.
I64(n) == ToBits(n, 31)

\* The alias ladder with CMN and CMP keeping the destination field as Rd.
AddSubRegAliasKeepingRd(r, op, S, sf, Rn) ==
    IF op = 0
    THEN IF S = 0
         THEN K(r, IF sf = 1 THEN "ADD (shifted register) -- 64-bit" ELSE "ADD (shifted register) -- 32-bit")
         ELSE IF r.Rd = RZR
              THEN K(r, "CMN (shifted register)")
              ELSE K(r, IF sf = 1 THEN "ADDS (shifted register) -- 64-bit" ELSE "ADDS (shifted register) -- 32-bit")
    ELSE IF S = 0
         THEN IF Rn = RZR
              THEN [K(r, "NEG (shifted register)") EXCEPT !.Rs = <<r.Rs[2], r.Rs[2], r.Rs[3]>>,
                                                          !.numSourceRegisters = 1]
              ELSE K(r, IF sf = 1 THEN "SUB (shifted register) -- 64-bit" ELSE "SUB (shifted register) -- 32-bit")
         ELSE IF r.Rd = RZR
              THEN K(r, "CMP (shifted register)")
              ELSE IF Rn = RZR
                   THEN [K(r, "NEGS") EXCEPT !.Rs = <<r.Rs[2], r.Rs[2], r.Rs[3]>>,
                                             !.numSourceRegisters = 1]
                   ELSE K(r, IF sf = 1 THEN "SUBS (shifted register) -- 64-bit" ELSE "SUBS (shifted register) -- 32-bit")

\* The alias ladder shared by Add/subtract (shifted register) and
\* Add/subtract (extended register): ADD/ADDS/CMN/SUB/NEG/SUBS/CMP/NEGS.
AddSubRegAlias(r, op, S, sf, Rn) ==
    IF op = 0
    THEN IF S = 0
         THEN K(r, IF sf = 1 THEN "ADD (shifted register) -- 64-bit" ELSE "ADD (shifted register) -- 32-bit")
         ELSE IF r.Rd = RZR
              THEN [K(r, "CMN (shifted register)") EXCEPT !.Rd = -1]
              ELSE K(r, IF sf = 1 THEN "ADDS (shifted register) -- 64-bit" ELSE "ADDS (shifted register) -- 32-bit")
    ELSE IF S = 0
         THEN IF Rn = RZR
              THEN [K(r, "NEG (shifted register)") EXCEPT !.Rs = <<r.Rs[2], r.Rs[2], r.Rs[3]>>,
                                                          !.numSourceRegisters = 1]
              ELSE K(r, IF sf = 1 THEN "SUB (shifted register) -- 64-bit" ELSE "SUB (shifted register) -- 32-bit")
         ELSE IF r.Rd = RZR
              THEN [K(r, "CMP (shifted register)") EXCEPT !.Rd = -1]
              ELSE IF Rn = RZR
                   THEN [K(r, "NEGS") EXCEPT !.Rs = <<r.Rs[2], r.Rs[2], r.Rs[3]>>,
                                             !.numSourceRegisters = 1]
                   ELSE K(r, IF sf = 1 THEN "SUBS (shifted register) -- 64-bit" ELSE "SUBS (shifted register) -- 32-bit")

\* op1 == 0, op2 == 0xxx
LogicalShiftedRegister(r0, c, sf, Rn, Rm) ==
    LET imm6 == bits(c, 15, 10)
        shift == bits(c, 23, 22)
        N == bits(c, 21, 21)
        opc == bits(c, 30, 29)
        r == [K(r0, "Logical (shifted register)") EXCEPT
                 !.RdCanBeSP = FALSE, !.Rs0CanBeSP = FALSE,
                 !.imm = Some(I64(imm6)), !.shiftType = Some(shift)]
    IN IF opc = 1 /\ N = 0
       THEN IF shift = LSL /\ imm6 = 0 /\ Rn = RZR
            THEN IF Rm = RZR
                 THEN [K(r, "MOV (register)") EXCEPT !.numSourceRegisters = 0, !.result = Some({})]
                 ELSE [K(r, "MOV (register)") EXCEPT !.Rs = <<r.Rs[2], r.Rs[2], r.Rs[3]>>,
                                                     !.numSourceRegisters = 1]
            ELSE K(r, IF sf = 0 THEN "ORR (shifted register) -- 32-bit" ELSE "ORR (shifted register) -- 64-bit")
       ELSE r

\* op1 == 0, op2 == 1xx0
AddSubShiftedRegister(r0, c, sf, Rn) ==
    LET imm6 == bits(c, 15, 10)
        shift == bits(c, 23, 22)
        r == [K(r0, "Add/subtract (shifted register)") EXCEPT
                 !.RdCanBeSP = FALSE, !.Rs0CanBeSP = FALSE,
                 !.imm = Some(I64(imm6)), !.shiftType = Some(shift)]
    IN IF shift = ShiftROR \/ (sf = 0 /\ imm6 >= 32)
       THEN K(r, unalloc)
       ELSE AddSubRegAlias(r, bits(c, 30, 30), bits(c, 29, 29), sf, Rn)

\* op1 == 0, op2 == 1xx1
AddSubExtendedRegister(r0, c, sf, Rn) ==
    LET S == bits(c, 29, 29)
        opt == bits(c, 23, 22)
        option == bits(c, 15, 13)
        imm3 == bits(c, 12, 10)
        r1 == [K(r0, "Add/subtract (extended register)") EXCEPT
                  !.RdCanBeSP = (S = 0), !.Rs0CanBeSP = TRUE,
                  !.extendType = Some(option), !.imm = Some(I64(imm3))]
        r == IF Rn = SP /\ ((sf = 0 /\ option = UXTW) \/ (sf = 1 /\ option = UXTX))
             THEN [r1 EXCEPT !.shiftType = Some(LSL)]
             ELSE r1
    IN IF opt # 0 \/ imm3 > 4
       THEN K(r, unalloc)
       ELSE AddSubRegAlias(r, bits(c, 30, 30), S, sf, Rn)

\* op1 == 1, op2 == 0100
ConditionalSelect(r0, c, sf) ==
    LET op == bits(c, 30, 30)
        S == bits(c, 29, 29)
        op2 == bits(c, 11, 10)
        r == [K(r0, "Conditional select") EXCEPT
                 !.RdCanBeSP = FALSE, !.Rs0CanBeSP = FALSE, !.numSourceRegisters = 2,
                 !.Rd = bits(c, 4, 0), !.Rs = <<bits(c, 9, 5), bits(c, 20, 16), @[3]>>,
                 !.cond = Some(bits(c, 15, 12))]
    IN IF S = 1 \/ op2 >= 2 THEN K(r, unalloc)
       ELSE IF op = 0
            THEN IF op2 = 0 THEN K(r, IF sf = 1 THEN "CSEL -- 64-bit" ELSE "CSEL -- 32-bit")
                 ELSE K(r, IF sf = 1 THEN "CSINC -- 64-bit" ELSE "CSINC -- 32-bit")
            ELSE IF op2 = 0 THEN K(r, IF sf = 1 THEN "CSINV -- 64-bit" ELSE "CSINV -- 32-bit")
                 ELSE K(r, IF sf = 1 THEN "CSNEG -- 64-bit" ELSE "CSNEG -- 32-bit")

\* op1 == 1, op2 == 1xxx.  assertOk is FALSE iff the assert of line 456 fails.
DataProcessing3Source(r0, c, sf) ==
    LET Ra == bits(c, 14, 10)
        o0 == bits(c, 15, 15)
        op31 == bits(c, 23, 21)
        op54 == bits(c, 30, 29)
        U == bits(c, 23, 23)
        r == [K(r0, "Data-processing (3 source)") EXCEPT
                 !.RdCanBeSP = FALSE, !.Rs0CanBeSP = FALSE,
                 !.numSourceRegisters = IF Ra = RZR THEN 2 ELSE 3,
                 !.Rd = bits(c, 4, 0), !.Rs = <<bits(c, 9, 5), bits(c, 20, 16), Ra>>]
    IN IF op54 # 0 \/ op31 = 3 \/ op31 = 4 \/ op31 = 7
          \/ (o0 = 1 /\ (op31 = 2 \/ op31 = 6))
          \/ (sf = 0 /\ op31 # 0)
       THEN [rec |-> K(r, unalloc), assertOk |-> TRUE]
       ELSE IF op31 = 0
            THEN IF o0 = 0
                 THEN [rec |-> IF Ra = RZR THEN K(r, "MUL")
                               ELSE K(r, IF sf = 1 THEN "MADD -- 64-bit" ELSE "MADD -- 32-bit"),
                       assertOk |-> TRUE]
                 ELSE [rec |-> IF Ra = RZR THEN K(r, "MNEG")
                               ELSE K(r, IF sf = 1 THEN "MSUB -- 64-bit" ELSE "MSUB -- 32-bit"),
                       assertOk |-> TRUE]
            ELSE IF op31 % 4 = 1
                 THEN IF o0 = 0
                      THEN [rec |-> IF Ra = RZR THEN K(r, IF U = 1 THEN "UMULL" ELSE "SMULL")
                                    ELSE K(r, IF U = 1 THEN "UMADDL" ELSE "SMADDL"),
                            assertOk |-> TRUE]
                      ELSE [rec |-> IF Ra = RZR THEN K(r, IF U = 1 THEN "UMNEGL" ELSE "SMNEGL")
                                    ELSE K(r, IF U = 1 THEN "UMSUBL" ELSE "SMSUBL"),
                            assertOk |-> TRUE]
                 ELSE [rec |-> IF Ra = RZR THEN K(r, IF U = 1 THEN "UMULH" ELSE "SMULH")
                               ELSE K(r, unalloc),
                       assertOk |-> (op31 % 4 = 2)]

\* top0 == x101.  Every family returns [rec, assertOk].
DataProcessingRegister(r0, c) ==
    LET r1 == K(r0, "Data Processing -- Register")
        op1 == bits(c, 28, 28)
        op2 == bits(c, 24, 21)
        sf == bits(c, 31, 31)
    IN IF op1 = 0
       THEN LET Rn == bits(c, 9, 5)
                Rm == bits(c, 20, 16)
                r2 == [r1 EXCEPT !.numSourceRegisters = 2, !.Rd = bits(c, 4, 0),
                                 !.Rs = <<Rn, Rm, @[3]>>]
            IN [rec |-> IF op2 < 8 THEN LogicalShiftedRegister(r2, c, sf, Rn, Rm)
                        ELSE IF op2 % 2 = 0 THEN AddSubShiftedRegister(r2, c, sf, Rn)
                        ELSE AddSubExtendedRegister(r2, c, sf, Rn),
                assertOk |-> TRUE]
       ELSE IF op2 = 4 THEN [rec |-> ConditionalSelect(r1, c, sf), assertOk |-> TRUE]
            ELSE IF op2 >= 8 THEN DataProcessing3Source(r1, c, sf)
            ELSE [rec |-> r1, assertOk |-> TRUE]

\* op0 == 00: ADR / ADRP.  code is an int32_t, immhi has the type bits() gives
\* for it and immI that of (immhi << 2) + immlo: a 32-bit integer, which the
\* log calls print with %X and %i (64-bit values are printed with %lX
\* throughout the file).  immI <<= 12 is therefore a shift of a 32-bit value,
\* which keeps its low 32 bits, and SignExtend<int64_t>(immI, 33) receives that
\* 32-bit value converted to int64_t.
PcRelAddressing(r0, c, pc) ==
    LET op == bits(c, 31, 31)
        immlo == bits(c, 30, 29)
        immhi == bits(c, 23, 5)
        immI == ToBits(immhi * 4 + immlo, 21)
        r == [K(r0, pcRelAddr) EXCEPT !.RdCanBeSP = FALSE, !.numSourceRegisters = 0]
        privateImm == IF op = 1 THEN SignExtend64(SignExtend64(Shl32(immI, 12), 32), 33)
                      ELSE SignExtend64(immI, 21)
        base == IF op = 1 THEN pc \ (0..11) ELSE pc
        res == Add64(base, privateImm)
    IN [K(r, IF op = 1 THEN "ADRP" ELSE "ADR") EXCEPT !.result = Some(res), !.label = Some(res)]

\* op0 == 01, op1 == 0x
AddSubImmediate(r0, c, sf) ==
    LET op == bits(c, 30, 30)
        S == bits(c, 29, 29)
        shift == bits(c, 23, 22)
        imm12 == bits(c, 21, 10)
        immU == Shl64(ZeroExtend64(I64(imm12), 12), 12 * shift)
        r == [K(r0, addSubImm) EXCEPT !.RdCanBeSP = (S = 0), !.imm = Some(immU)]
    IN IF op = 0
       THEN IF S = 0
            THEN IF immU = {} /\ (r.Rd = SP \/ r.Rs[1] = SP)
                 THEN K(r, "MOV (to/from SP)")
                 ELSE K(r, IF sf = 1 THEN "ADD (immediate) -- 64-bit" ELSE "ADD (immediate) -- 32-bit")
            ELSE IF r.Rd = RZR
                 THEN [K(r, "CMN (immediate)") EXCEPT !.Rd = -1]
                 ELSE K(r, IF sf = 1 THEN "ADDS (immediate) -- 64-bit" ELSE "ADDS (immediate) -- 32-bit")
       ELSE LET rn == [r EXCEPT !.imm = Some(Neg64(immU))]
            IN IF S = 0
               THEN K(rn, IF sf = 1 THEN "SUB (immediate) -- 64-bit" ELSE "SUB (immediate) -- 32-bit")
               ELSE IF rn.Rd = RZR
                    THEN [K(rn, "CMP (immediate)") EXCEPT !.Rd = -1]
                    ELSE K(rn, IF sf = 1 THEN "SUBS (immediate) -- 64-bit" ELSE "SUBS (immediate) -- 32-bit")

\* op0 == 10, op1 == 0x
LogicalImmediate(r0, c, sf) ==
    LET opc == bits(c, 30, 29)
        N == bits(c, 22, 22)
        immr == bits(c, 21, 16)
        imms == bits(c, 15, 10)
        Rn == bits(c, 9, 5)
        immV == DecodeBitMasks(N, imms, immr, IF sf = 1 THEN 64 ELSE 32)
        r1 == [K(r0, "Logical (immediate)") EXCEPT
                  !.RdCanBeSP = (opc # 3), !.Rs0CanBeSP = FALSE, !.imm = Some(immV),
                  !.valid = IF immV = AllOnes64 THEN FALSE ELSE @]
        r == IF Rn = RZR THEN [r1 EXCEPT !.numSourceRegisters = 0]
             ELSE [r1 EXCEPT !.numSourceRegisters = 1, !.Rs = <<Rn, @[2], @[3]>>]
        zr(x, v) == IF Rn = RZR THEN [x EXCEPT !.result = Some(v)] ELSE x
    IN IF sf = 0 /\ N = 1 THEN K(r, unalloc)
       ELSE IF opc = 0
            THEN K(zr(r, {}), IF sf = 0 THEN "AND (immediate) -- 32-bit" ELSE "AND (immediate) -- 64-bit")
       ELSE IF opc = 1
            THEN K(zr(r, immV), IF sf = 0 THEN "ORR (immediate) -- 32-bit" ELSE "ORR (immediate) -- 64-bit")
       ELSE IF opc = 2
            THEN K(zr(r, immV), IF sf = 0 THEN "EOR (immediate) -- 32-bit" ELSE "EOR (immediate) -- 64-bit")
       ELSE K(zr(r, {}), IF sf = 0 THEN "ANDS (immediate) -- 32-bit" ELSE "ANDS (immediate) -- 64-bit")

\* top0 == 100x
DataProcessingImmediate(r0, c, pc) ==
    LET r1 == [K(r0, "Data Processing -- Immediate") EXCEPT !.Rd = bits(c, 4, 0)]
        sf == bits(c, 31, 31)
        op0 == bits(c, 25, 24)
        op1 == bits(c, 23, 22)
    IN IF op0 = 0 THEN PcRelAddressing(r1, c, pc)
       ELSE IF op0 = 1
       THEN LET r2 == [r1 EXCEPT !.numSourceRegisters = 1, !.Rs0CanBeSP = TRUE,
                                 !.Rs = <<bits(c, 9, 5), @[2], @[3]>>]
                S == bits(c, 29, 29)
            IN IF op1 >= 2
               THEN LET r3 == [K(r2, "Add/subtract (immediate, with tags)") EXCEPT !.RdCanBeSP = TRUE]
                    IN IF sf = 0 \/ (sf = 1 /\ S = 1) THEN K(r3, unalloc) ELSE r3
               ELSE AddSubImmediate(r2, c, sf)
       ELSE IF op0 = 2
       THEN IF op1 < 2 THEN LogicalImmediate(r1, c, sf) ELSE r1
       ELSE IF op1 < 2 THEN K(r1, "Bitfield") ELSE K(r1, "Extract")

\* pc + (SignExtend<int64_t>(imm, numBits) << 2)
BranchTarget(pc, imm, numBits) == Add64(pc, Shl64(SignExtend64(ToBits(imm, numBits), numBits), 2))

\* op0 == 110, op1 == 1xxxxxxxxxxxxx: BR, BLR, RET
UnconditionalBranchRegister(r0, c, pc) ==
    LET opc == bits(c, 24, 21)
        op2 == bits(c, 20, 16)
        op3 == bits(c, 15, 10)
        op4 == bits(c, 4, 0)
        r == [K(r0, "Unconditional branch (register)") EXCEPT
                 !.numSourceRegisters = 1, !.Rs = <<bits(c, 9, 5), @[2], @[3]>>]
        name(x, n) == IF op3 = 0 THEN (IF op4 # 0 THEN K(x, unalloc) ELSE K(x, n)) ELSE x
    IN IF op2 # 31 THEN K(r, unalloc)
       ELSE IF opc = 0 THEN name([r EXCEPT !.branchType = "INDIR"], "BR")
       ELSE IF opc = 1
            THEN name([r EXCEPT !.branchType = "INDCALL", !.Rd = RLINK,
                                !.result = Some(Add64(pc, {2}))], "BLR")
       ELSE IF opc = 2 THEN name([r EXCEPT !.branchType = "RET"], "RET")
       ELSE r

\* top0 == 101x
BranchesExceptionSystem(r0, c, pc) ==
    LET r1 == [K(r0, "Branches, Exception Generating and System instructions") EXCEPT
                  !.Rd = -1, !.RdCanBeSP = FALSE, !.Rs0CanBeSP = FALSE]
        op0 == bits(c, 31, 29)
        op1hi == bits(c, 25, 25)      \* op1 & 0b10000000000000
    IN IF op0 = 2
       THEN IF op1hi # 0 THEN K(r1, unalloc)
            ELSE LET r2 == [K(r1, "Conditional branch (immediate)") EXCEPT
                               !.numSourceRegisters = 0, !.cond = Some(bits(c, 3, 0))]
                 IN IF bits(c, 4, 4) = 1 \/ bits(c, 24, 24) = 1 THEN K(r2, unalloc)
                    ELSE [K(r2, "B.cond") EXCEPT
                             !.label = Some(BranchTarget(pc, bits(c, 23, 5), 19)),
                             !.branchType = "DIR"]
       ELSE IF op0 = 6
       THEN IF op1hi # 0 THEN UnconditionalBranchRegister(r1, c, pc) ELSE r1
       ELSE IF op0 % 4 = 0
       THEN LET r2 == [K(r1, "Unconditional branch (immediate)") EXCEPT
                          !.numSourceRegisters = 0,
                          !.label = Some(BranchTarget(pc, bits(c, 25, 0), 26))]
            IN IF bits(c, 31, 31) = 0
               THEN [K(r2, "B") EXCEPT !.branchType = "DIR"]
               ELSE [K(r2, "BL") EXCEPT !.branchType = "DIRCALL", !.Rd = RLINK,
                                        !.result = Some(Add64(pc, {2}))]
       ELSE IF op0 % 4 = 1
       THEN IF op1hi = 0
            THEN LET r2 == [K(r1, "Compare and branch (immediate)") EXCEPT
                               !.numSourceRegisters = 1, !.Rs = <<bits(c, 4, 0), @[2], @[3]>>]
                     sf == bits(c, 31, 31)
                     r3 == IF bits(c, 24, 24) = 0
                           THEN K(r2, IF sf = 1 THEN "CBZ -- 64-bit" ELSE "CBZ -- 32-bit")
                           ELSE K(r2, IF sf = 1 THEN "CBNZ -- 64-bit" ELSE "CBNZ -- 32-bit")
                 IN \* label = SignExtend(imm19, 19) << 2: the offset alone, pc is not added
                    [r3 EXCEPT !.label = Some(Shl64(SignExtend64(ToBits(bits(c, 23, 5), 19), 19), 2))]
            ELSE LET b5 == bits(c, 31, 31)
                     b40 == bits(c, 23, 19)
                     r2 == [K(r1, "Test and branch (immediate)") EXCEPT
                               !.numSourceRegisters = 1, !.Rs = <<bits(c, 4, 0), @[2], @[3]>>,
                               !.imm = Some(ToBits(b5 * 16, 5) \cup ToBits(b40, 5)),
                               !.branchType = "DIR",
                               !.label = Some(BranchTarget(pc, bits(c, 18, 5), 14))]
                 IN K(r2, IF bits(c, 24, 24) = 1 THEN "TBNZ" ELSE "TBZ")
       ELSE r1

\* Store operands with the source slot left unset.
StoreRegsWithoutSource(r, Rt, Rn) ==
    [r EXCEPT !.Rs0CanBeSP = FALSE, !.Rd = Rn, !.RdCanBeSP = TRUE]

\* Store operands: Rs[0] = Rt, Rd = Rn (the base register is the "destination").
StoreRegs(r, Rt, Rn) ==
    [r EXCEPT !.Rs = <<Rt, @[2], @[3]>>, !.Rs0CanBeSP = FALSE, !.Rd = Rn, !.RdCanBeSP = TRUE]

\* Load operands: Rs[0] = Rn, Rd = Rt.
LoadRegs(r, Rt, Rn) ==
    [r EXCEPT !.Rs = <<Rn, @[2], @[3]>>, !.Rs0CanBeSP = TRUE, !.Rd = Rt, !.RdCanBeSP = FALSE]

\* The mnemonic ladder of Load/store register (register offset), V == 0.
LdStRegisterOffsetName(size, opc, shifted) ==
    IF opc = 0
    THEN IF size = 3 THEN "STR (register) -- 64-bit"
         ELSE IF size = 2 THEN "STR (register) -- 32-bit"
         ELSE IF size = 1 THEN "STRH (register)"
         ELSE IF shifted THEN "STRB (register) -- shifted register"
         ELSE "STRB (register) -- extended register"
    ELSE IF opc = 1
    THEN IF size = 3 THEN "LDR (register) -- 64-bit"
         ELSE IF size = 2 THEN "LDR (register) -- 32-bit"
         ELSE IF size = 1 THEN "LDRH (register)"
         ELSE IF shifted THEN "LDRB (register) -- shifted register"
         ELSE "LDRB (register) -- extended register"
    ELSE IF size = 3 THEN (IF opc = 2 THEN "PRFM (register)" ELSE unalloc)
    ELSE IF size = 2 THEN (IF opc = 2 THEN "LDRSW (register)" ELSE unalloc)
    ELSE IF size = 1 THEN (IF opc = 2 THEN "LDRSH (register) -- 64-bit" ELSE "LDRSH (register) -- 32-bit")
    ELSE IF opc = 2
         THEN (IF shifted THEN "LDRSB (register) -- 64-bit with shifted register offset"
               ELSE "LDRSB (register) -- 64-bit with extended register offset")
         ELSE (IF shifted THEN "LDRSB (register) -- 32-bit with shifted register offset"
               ELSE "LDRSB (register) -- 32-bit with extended register offset")

\* The mnemonic ladder of the immediate-offset forms (hasImmOffset), V == 0.
LdStImmediateName(size, opc) ==
    IF opc = 0
    THEN IF size = 3 THEN "STR (immediate) -- 64-bit"
         ELSE IF size = 2 THEN "STR (immediate) -- 32-bit"
         ELSE IF size = 1 THEN "STRH (immediate)"
         ELSE "STRB (immediate)"
    ELSE IF opc = 1
    THEN IF size = 3 THEN "LDR (immediate) -- 64-bit"
         ELSE IF size = 2 THEN "LDR (immediate) -- 32-bit"
         ELSE IF size = 1 THEN "LDRH (immediate)"
         ELSE "LDRB (immediate)"
    ELSE IF size = 3 THEN (IF opc = 2 THEN "PRFM (immediate)" ELSE unalloc)
    ELSE IF size = 2 THEN (IF opc = 2 THEN "LDRSW (immediate)" ELSE unalloc)
    ELSE IF size = 1 THEN (IF opc = 2 THEN "LDRSH (immediate) -- 64-bit" ELSE "LDRSH (immediate) -- 32-bit")
    ELSE (IF opc = 2 THEN "LDRSB (immediate) -- 64-bit" ELSE "LDRSB (immediate) -- 32-bit")

\* op0 == xx11, op2 == 0x, op3 == 1xxxxx, op4 == 10
LdStRegisterOffset(r0, c, size, V, opc, Rt, Rn) ==
    LET option == bits(c, 15, 13)
        S == bits(c, 12, 12)
        shifted == (option = UXTX)
        r1 == [K(r0, "Load/store register (register offset)") EXCEPT
                  !.numSourceRegisters = 2, !.Rs = <<@[1], bits(c, 20, 16), @[3]>>,
                  !.extendType = Some(option),
                  !.shiftType = IF shifted THEN Some(LSL) ELSE @,
                  !.imm = Some(I64(IF S = 1 THEN size ELSE 0))]
    IN IF (option \div 2) % 2 = 0 \/ (size % 2 = 1 /\ V = 1 /\ opc >= 2)
       THEN K(r1, unalloc)
       ELSE IF V = 0
            THEN K(IF opc = 0 THEN StoreRegs(r1, Rt, Rn) ELSE LoadRegs(r1, Rt, Rn),
                   LdStRegisterOffsetName(size, opc, shifted))
            ELSE r1

\* op0 == xx11: Load/store register, single register forms
LdStRegister(r0, c) ==
    LET size == bits(c, 31, 30)
        V == bits(c, 26, 26)
        opc == bits(c, 23, 22)
        Rt == bits(c, 4, 0)
        Rn == bits(c, 9, 5)
        op2 == bits(c, 24, 23)
        op3hi == bits(c, 21, 21)
        op4 == bits(c, 11, 10)
        withImm(r) ==             \* if (hasImmOffset) { ... }
            LET r1 == [r EXCEPT !.numSourceRegisters = 1]
            IN IF V = 0
               THEN K(IF opc = 0 THEN StoreRegs(r1, Rt, Rn) ELSE LoadRegs(r1, Rt, Rn),
                      LdStImmediateName(size, opc))
               ELSE r1
    IN IF op2 >= 2
       THEN withImm([K(r0, "Load/store register (unsigned immediate)") EXCEPT
                        !.imm = Some(Shl64(ZeroExtend64(I64(bits(c, 21, 10)), 12), size)),
                        !.wback = Some(FALSE), !.postindex = Some(FALSE)])
       ELSE IF op3hi = 0
       THEN LET r1 == [r0 EXCEPT !.imm = Some(SignExtend64(I64(bits(c, 20, 12)), 9))]
            IN IF op4 = 3
               THEN withImm([K(r1, "Load/store register (immediate pre-indexed)") EXCEPT
                                !.wback = Some(TRUE), !.postindex = Some(FALSE)])
               ELSE IF op4 = 1
               THEN withImm([K(r1, "Load/store register (immediate post-indexed)") EXCEPT
                                !.wback = Some(TRUE), !.postindex = Some(TRUE)])
               ELSE r1
       ELSE IF op4 = 2 THEN LdStRegisterOffset(r0, c, size, V, opc, Rt, Rn)
       ELSE r0

\* op0 == xx10: Load/store pair forms
LdStPair(r0, c) ==
    LET opc == bits(c, 31, 30)
        V == bits(c, 26, 26)
        L == bits(c, 22, 22)
        Rt == bits(c, 4, 0)
        Rn == bits(c, 9, 5)
        Rt2 == bits(c, 14, 10)
        op2 == bits(c, 24, 23)
    IN IF op2 = 0 THEN K(r0, "Load/store no-allocate pair (offset)")
       ELSE LET r1 == IF op2 = 1
                      THEN [K(r0, "Load/store register pair (post-indexed)") EXCEPT
                               !.wback = Some(TRUE), !.postindex = Some(TRUE)]
                      ELSE IF op2 = 2
                      THEN [K(r0, "Load/store register pair (offset)") EXCEPT
                               !.wback = Some(FALSE), !.postindex = Some(FALSE)]
                      ELSE [K(r0, "Load/store register pair (pre-indexed)") EXCEPT
                               !.wback = Some(TRUE), !.postindex = Some(FALSE)]
            IN IF opc = 3 THEN K(r1, unalloc)
               ELSE IF V = 0 /\ L = 0
               THEN K([r1 EXCEPT !.numSourceRegisters = 2, !.Rs = <<Rt, Rt2, @[3]>>,
                                 !.Rs0CanBeSP = TRUE, !.Rd = Rn, !.RdCanBeSP = TRUE],
                      IF opc = 0 THEN "STP -- 32-bit" ELSE IF opc = 1 THEN "STGP" ELSE "STP -- 64-bit")
               ELSE IF V = 0 /\ L = 1
               THEN K([r1 EXCEPT !.numSourceRegisters = 1, !.Rs = <<Rn, @[2], @[3]>>,
                                 !.Rs0CanBeSP = TRUE, !.Rd = Rt, !.RdCanBeSP = FALSE, !.Rd2 = Rt2],
                      IF opc = 0 THEN "LDP -- 32-bit" ELSE IF opc = 1 THEN "LDPSW" ELSE "LDP -- 64-bit")
               ELSE r1

\* top0 == x1x0
LoadsAndStores(r0, c) ==
    LET r1 == K(r0, ldSt)
        op0lo == bits(c, 29, 28)       \* op0 & 0b11
    IN IF op0lo = 3 THEN LdStRegister(r1, c)
       ELSE IF op0lo = 2 THEN LdStPair(r1, c)
       ELSE r1

\* The tail of the constructor: parsed iff every kind level was filled, and a
\* fully parsed record whose last label is UNALLOCATED is marked invalid.
\* b is the pair [rec, assertOk] the body of the constructor produced.
FinishParse(b) ==
    IF Len(b.rec.kind) # KindLevels THEN b
    ELSE [b EXCEPT !.rec.parsed = TRUE,
                   !.rec.valid = IF b.rec.kind[Len(b.rec.kind)] = unalloc THEN FALSE ELSE @]

\* The bit patterns of the constructor's top-level if / else-if chain, each as
\* the set of op0 values (bits 28..25) it matches.
TopPatternMatches(top0) ==
    [invalid |-> top0 <= 3,                                  \* top0 <= 3
     dpreg   |-> top0 % 8 = 5,                               \* (top0 & 0b111) == 0b101
     simd    |-> top0 % 8 = 7,                               \* (top0 & 0b111) == 0b111
     dpimm   |-> top0 \div 2 = 4,                            \* (top0 | 0b1) == 0b1001
     branch  |-> top0 \div 2 = 5,                            \* (top0 | 0b1) == 0b1011
     ldst    |-> (top0 \div 4) % 2 = 1 /\ top0 % 2 = 0]      \* (top0 & 0b101) == 0b100

\* The chain with the Data Processing -- Immediate test written == 0b1000.
TopLevelFamilyNarrow(top0) ==
    LET m == TopPatternMatches(top0)
    IN IF m.invalid THEN "invalid"
       ELSE IF m.dpreg THEN "dpreg"
       ELSE IF m.simd THEN "simd"
       ELSE IF top0 = 8 THEN "dpimm"
       ELSE IF m.branch THEN "branch"
       ELSE IF m.ldst THEN "ldst"
       ELSE "gap"

\* The family the chain selects: the first pattern that matches, "gap" if none.
TopLevelFamily(top0) ==
    LET m == TopPatternMatches(top0)
    IN IF m.invalid THEN "invalid"
       ELSE IF m.dpreg THEN "dpreg"
       ELSE IF m.simd THEN "simd"
       ELSE IF m.dpimm THEN "dpimm"
       ELSE IF m.branch THEN "branch"
       ELSE IF m.ldst THEN "ldst"
       ELSE "gap"

\* Instruction::Instruction(const int32_t* inst) for a pointer with a known
\* image base: [rec |-> the record, assertOk |-> no assert() failed on the way].
\* The constructor writing its labels behind those of the object constructed
\* before it (parseLevel and kind carried over instead of starting afresh).
InstructionKeepingKind(c, pc) ==
    FinishParse(
        LET r0 == [InstructionDefaults(pc) EXCEPT
                      !.kind = IF HasValue(inst) THEN Value(inst).kind ELSE <<>>]
            fam == TopLevelFamily(bits(c, 28, 25))
        IN IF fam = "invalid"
           THEN [rec |-> [r0 EXCEPT !.kind = [i \in 1..KindLevels |-> "Invalid instruction"],
                                    !.valid = FALSE],
                 assertOk |-> TRUE]
           ELSE IF fam = "dpreg" THEN DataProcessingRegister(r0, c)
           ELSE IF fam = "simd"
           THEN [rec |-> K(r0, "Data Processing -- Scalar Floating-Point and Advanced SIMD"),
                 assertOk |-> TRUE]
           ELSE IF fam = "dpimm"
           THEN [rec |-> DataProcessingImmediate(r0, c, pc), assertOk |-> TRUE]
           ELSE IF fam = "branch"
           THEN [rec |-> BranchesExceptionSystem(r0, c, pc), assertOk |-> TRUE]
           ELSE IF fam = "ldst"
           THEN [rec |-> LoadsAndStores(r0, c), assertOk |-> TRUE]
           ELSE [rec |-> [K(r0, "ERROR: Our top-level bit patterns have a gap!") EXCEPT
                             !.valid = FALSE],
                 assertOk |-> TRUE])

Instruction(c, pc) ==
    FinishParse(
        LET r0 == InstructionDefaults(pc)
            fam == TopLevelFamily(bits(c, 28, 25))
        IN IF fam = "invalid"
           THEN [rec |-> [r0 EXCEPT !.kind = [i \in 1..KindLevels |-> "Invalid instruction"],
                                    !.valid = FALSE],
                 assertOk |-> TRUE]
           ELSE IF fam = "dpreg" THEN DataProcessingRegister(r0, c)
           ELSE IF fam = "simd"
           THEN [rec |-> K(r0, "Data Processing -- Scalar Floating-Point and Advanced SIMD"),
                 assertOk |-> TRUE]
           ELSE IF fam = "dpimm"
           THEN [rec |-> DataProcessingImmediate(r0, c, pc), assertOk |-> TRUE]
           ELSE IF fam = "branch"
           THEN [rec |-> BranchesExceptionSystem(r0, c, pc), assertOk |-> TRUE]
           ELSE IF fam = "ldst"
           THEN [rec |-> LoadsAndStores(r0, c), assertOk |-> TRUE]
           ELSE [rec |-> [K(r0, "ERROR: Our top-level bit patterns have a gap!") EXCEPT
                             !.valid = FALSE],
                 assertOk |-> TRUE])

-----------------------------------------------------------------------------
(* Inputs *)

\* A code word assembled from its fields: bits 31..29, 28..25 (the top-level
\* op0), 24..21 and the low 21 bits (a bit set within 0..20).
Word(hi, top0, mid, low) ==
    {i + 29 : i \in ToBits(hi, 3)} \cup {i + 25 : i \in ToBits(top0, 4)}
        \cup {i + 21 : i \in ToBits(mid, 4)} \cup low

\* Low 21 bits: fields 20..16 (Rm / op2 / immr), 15..10 (imm6 / imms / op3 /
\* option:S:op4 / Ra / Rt2), 9..5 (Rn) and 4..0 (Rd / Rt / op4).
Low(f2016, f1510, f95, f40) ==
    {i + 16 : i \in ToBits(f2016, 5)} \cup {i + 10 : i \in ToBits(f1510, 6)}
        \cup {i + 5 : i \in ToBits(f95, 5)} \cup ToBits(f40, 5)

\* A code word written as its two 16-bit halves.
Hex(hi16, lo16) == {i + 16 : i \in ToBits(hi16, 16)} \cup ToBits(lo16, 16)

LowPatterns ==
    {Low(0, 0, 0, 0), Low(2, 0, 1, 3), Low(1, 0, 0, 0), Low(31, 0, 31, 31),
     Low(31, 0, 2, 0), Low(31, 0, 30, 1), Low(3, 26, 1, 2), Low(3, 2, 1, 2),
     Low(0, 63, 31, 4), Low(5, 60, 2, 31), Low(2, 31, 31, 5), Low(31, 62, 3, 16),
     Low(2, 1, 1, 2), Low(2, 7, 1, 31)}

CodeWords ==
    {Word(hi, top0, mid, low) : hi \in 0..7, top0 \in 0..15, mid \in 0..15, low \in LowPatterns}

\* 0x1000 and 0x7100001008: pointers into a mapped image.
Pointers == {{12}, {3, 12, 32, 36, 37, 38}}

-----------------------------------------------------------------------------
(* Harness: one call of DecodeBitMasks *)

DbmIdle == dbmArgs = <<0, 0, 0, 32>> /\ dbmRet = None
CtorIdle ==
    code = {} /\ iaddr = {} /\ inst = None /\ ctorOutcome = "idle" /\ instAgain = None
EaIdle == adrCode = {} /\ addCode = {} /\ eaPc = {} /\ eaRet = None
TravIdle ==
    /\ mem = <<>> /\ entry = {} /\ nodes = <<>> /\ parseState = None
    /\ drv = "idle" /\ expansions = <<>>
RcIdle ==
    /\ addrRefCount = <<>> /\ crashed = FALSE /\ lastCall = None
    /\ objState = <<>> /\ objPtr = <<>> /\ objOwns = <<>>
    /\ gcHeap = <<>> /\ lastFree = None
    /\ dtorPc = <<>>
FnIdle ==
    /\ window = <<>> /\ nToRetOn = 0 /\ retCount = 0 /\ szBytes = 0 /\ skipIds = {}
    /\ fnPc = "idle" /\ rCount = 0 /\ nCalls = 0 /\ sz = 0 /\ ptr = 0
    /\ fnRet = None /\ asked = <<>>
SwIdle ==
    /\ switchTable = {} /\ tableEntries = <<>> /\ switchCaseValue = 0 /\ targetWord = {}
    /\ evalSwitchRet = None /\ csEvalswitchRet = None

InitDbm ==
    /\ dbmArgs \in {<<N, imms, immr, regSize>> :
                       N \in {0, 1}, imms \in 0..63, immr \in 0..63, regSize \in {32, 64}}
    /\ dbmRet = None
    /\ CtorIdle
    /\ EaIdle
    /\ TravIdle
    /\ SwIdle
    /\ FnIdle
    /\ RcIdle

CallDecodeBitMasks ==
    /\ dbmRet = None
    /\ dbmRet' = Some(DecodeBitMasks(dbmArgs[1], dbmArgs[2], dbmArgs[3], dbmArgs[4]))
    /\ UNCHANGED <<dbmArgs, ctorVars, eaVars, travVars, swVars, fnVars, rcVars>>

NextDbm == CallDecodeBitMasks

SpecDbm == InitDbm /\ [][NextDbm]_vars

-----------------------------------------------------------------------------
(* Harness: one construction of an Instruction *)

InitCtor ==
    /\ code \in CodeWords
    /\ iaddr \in Pointers
    /\ inst = None
    /\ ctorOutcome = "pending"
    /\ instAgain = None
    /\ DbmIdle
    /\ EaIdle
    /\ TravIdle
    /\ SwIdle
    /\ FnIdle
    /\ RcIdle

\* The constructor runs to its end, or an assert() in it fails and aborts.
Construct ==
    /\ ctorOutcome = "pending"
    /\ \E d \in {Instruction(code, iaddr)} :
          /\ inst' = IF d.assertOk THEN Some(d.rec) ELSE None
          /\ ctorOutcome' = IF d.assertOk THEN "constructed" ELSE "aborted"
    /\ UNCHANGED <<code, iaddr, instAgain, dbmVars, eaVars, travVars, swVars, fnVars, rcVars>>

\* A second Instruction is constructed from the same pointer.
ConstructAgain ==
    /\ ctorOutcome = "constructed"
    /\ instAgain = None
    /\ \E d \in {Instruction(code, iaddr)} :
          /\ d.assertOk
          /\ instAgain' = Some(d.rec)
    /\ UNCHANGED <<code, iaddr, inst, ctorOutcome, dbmVars, eaVars, travVars, swVars, fnVars, rcVars>>

NextCtor == Construct \/ ConstructAgain

SpecCtor == InitCtor /\ [][NextCtor]_vars

-----------------------------------------------------------------------------
(* ExtractAddress(instWithResultAdr, instWithImmOffset) and its harness *)

\* ExtractAddress that adds the immediate without testing for its presence
\* (an absent immediate reading as 0).
ExtractAddressUnchecked(instWithResultAdr, instWithImmOffset) ==
    Add64(Value(instWithResultAdr.result),
          IF HasValue(instWithImmOffset.imm) THEN Value(instWithImmOffset.imm) ELSE {})

ExtractAddress(instWithResultAdr, instWithImmOffset) ==
    IF ~HasValue(instWithImmOffset.imm) THEN {}                    \* RET_0_UNLESS(imm)
    ELSE Add64(Value(instWithResultAdr.result), Value(instWithImmOffset.imm))

\* ADR / ADRP words: op (bit 31), immlo (30..29), immhi (23..5), Rd.
AdrWord(op, immlo, immhi, Rd) ==
    {i + 31 : i \in ToBits(op, 1)} \cup {i + 29 : i \in ToBits(immlo, 2)} \cup {28}
        \cup {i + 5 : i \in ToBits(immhi, 19)} \cup ToBits(Rd, 5)

AdrWords ==
    {AdrWord(op, immlo, immhi, 0) : op \in {0, 1}, immlo \in {0, 1, 3},
                                    immhi \in {0, 1, 524287}}

\* ADD / SUB (immediate) words, 64-bit: op (bit 30), shift (23..22), imm12, Rn, Rd.
AddSubImmWord(op, shift, imm12) ==
    {31, 28, 24} \cup {i + 30 : i \in ToBits(op, 1)} \cup {i + 22 : i \in ToBits(shift, 2)}
        \cup {i + 10 : i \in ToBits(imm12, 12)}

\* Second instructions: ADD / SUB (immediate), and words that carry no
\* immediate (RET, B, a SIMD word, the zero word).
OffsetWords ==
    {AddSubImmWord(op, shift, imm12) : op \in {0, 1}, shift \in {0, 1}, imm12 \in {0, 32, 4095}}
        \cup {Hex(54879, 960), Hex(6143, 65535), Hex(7680, 0), {}}

InitEa ==
    /\ adrCode \in AdrWords
    /\ addCode \in OffsetWords
    /\ eaPc \in Pointers
    /\ eaRet = None
    /\ DbmIdle
    /\ CtorIdle
    /\ TravIdle
    /\ SwIdle
    /\ FnIdle
    /\ RcIdle

\* ExtractAddressFixed's body: both instructions are decoded, then resolved.
CallExtractAddress ==
    /\ eaRet = None
    /\ eaRet' = Some(ExtractAddress(Instruction(adrCode, eaPc).rec,
                                    Instruction(addCode, Add64(eaPc, {2})).rec))
    /\ UNCHANGED <<adrCode, addCode, eaPc, dbmVars, ctorVars, travVars, swVars, fnVars, rcVars>>

NextEa == CallExtractAddress

SpecEa == InitEa /\ [][NextEa]_vars

-----------------------------------------------------------------------------
(* EvalSwitch(switchTable, switchCaseValue), cs::evalswitch and their harness *)

\* Number of entries in the jump table.
TableLen == 2

\* switchTable[k] for a C index k: the k-th 32-bit word after the table base.
TableWord(k) == tableEntries[k + 1]

\* Conversion of an int32_t to uint64_t (the usual arithmetic conversion of
\* uint64_t + int32_t): the value modulo 2^64.
Int32ToUint64(val) == IF 31 \in val THEN val \cup (32..63) ELSE val

\* EvalSwitch reading the entry as an unsigned offset.
EvalSwitchZeroExtend(table, caseValue) ==
    Add64(table, ZeroExtend64(TableWord(caseValue - 1), 32))

\* The jump address EvalSwitch computes:
\* stOffset = SignExtend<int64_t>(switchTable[switchCaseValue - 1], 32);
\* jmpAddr = (int64_t)switchTable + stOffset.
EvalSwitch(table, caseValue) ==
    Add64(table, SignExtend64(TableWord(caseValue - 1), 32))

\* cs::evalswitch once the table is resolved:
\* val = switchTable[match - 1]; return (uint64_t)switchTable + val.
evalswitch(table, match) ==
    Add64(table, Int32ToUint64(TableWord(match - 1)))

\* Table entries: -8, -4, 0, 8, 0x7FFFFFFC and 0x80000000.
TableEntryValues ==
    {Hex(65535, 65528), Hex(65535, 65532), {}, {3}, Hex(32767, 65532), {31}}

InitSw ==
    /\ switchTable \in Pointers
    /\ tableEntries \in [1..TableLen -> TableEntryValues]
    /\ switchCaseValue \in 1..TableLen
    /\ targetWord \in {Hex(54879, 960), {}}
    /\ evalSwitchRet = None
    /\ csEvalswitchRet = None
    /\ DbmIdle
    /\ CtorIdle
    /\ EaIdle
    /\ TravIdle
    /\ FnIdle
    /\ RcIdle

\* EvalSwitch returns a new Instruction decoded at the jump address.
CallEvalSwitch ==
    /\ evalSwitchRet = None
    /\ evalSwitchRet' = Some(Instruction(targetWord, EvalSwitch(switchTable, switchCaseValue)).rec)
    /\ UNCHANGED <<switchTable, tableEntries, switchCaseValue, targetWord, csEvalswitchRet,
                   dbmVars, ctorVars, eaVars, travVars, fnVars, rcVars>>

CallCsEvalswitch ==
    /\ csEvalswitchRet = None
    /\ csEvalswitchRet' = Some(evalswitch(switchTable, switchCaseValue))
    /\ UNCHANGED <<switchTable, tableEntries, switchCaseValue, targetWord, evalSwitchRet,
                   dbmVars, ctorVars, eaVars, travVars, fnVars, rcVars>>

NextSw == CallEvalSwitch \/ CallCsEvalswitch

SpecSw == InitSw /\ [][NextSw]_vars

-----------------------------------------------------------------------------
(* cs::findNth with the predicates of cs::findNthBl, and its harness *)

\* Number of instructions in the scanned window.
WindowLen == 3

\* What the disassembler reports for the k-th word of the window: the id, the
\* address and (for BL) the immediate operand.  "INVALID" stands for a word
\* cs_disasm_iter fails on, "ADD" for any instruction no predicate accepts.
InsnIds == {"RET", "BL", "BLR", "ADD", "INVALID"}

Insn(id, k) ==
    [id |-> id, address |-> 4096 + 4 * (k - 1), imm |-> IF id = "BL" THEN 3 - 2 * k ELSE 0]

\* The instruction at address a; the memory behind the window holds calls.
InsnAt(a) ==
    LET k == (a - window[1].address) \div 4 + 1
    IN IF k \in DOMAIN window THEN window[k] ELSE Insn("BL", k)

\* insnMatch<args...>(insn)
insnMatch(args, insn) == insn.id \in args

\* blConv: BL is pc + (imm << 2)
blConv(insn) ==
    IF insn.id = "BL" THEN Some(insn.imm * 4 + insn.address) ELSE None

\* The loop body returning on every match, whatever the remaining count.
FindNthStepFirstMatch(insn, rc, nc, skip) ==
    IF insn.id = "RET"
    THEN IF rc = 0
         THEN [pc |-> "abortRets", rCount |-> rc, nCalls |-> nc, ret |-> None, asked |-> <<>>]
         ELSE [pc |-> "loop", rCount |-> rc - 1, nCalls |-> nc, ret |-> None, asked |-> <<>>]
    ELSE IF HasValue(blConv(insn))
    THEN [pc |-> "returned", rCount |-> rc, nCalls |-> nc, ret |-> blConv(insn),
          asked |-> <<"match">>]
    ELSE IF insnMatch(skip, insn)
    THEN IF nc = 1
         THEN [pc |-> "abortSkip", rCount |-> rc, nCalls |-> nc, ret |-> None,
               asked |-> <<"match", "skip">>]
         ELSE [pc |-> "loop", rCount |-> rc, nCalls |-> nc - 1, ret |-> None,
               asked |-> <<"match", "skip">>]
    ELSE [pc |-> "loop", rCount |-> rc, nCalls |-> nc, ret |-> None,
          asked |-> <<"match", "skip">>]

\* The loop body with a skip instruction that is passed over without counting.
FindNthStepSkipUncounted(insn, rc, nc, skip) ==
    IF insn.id = "RET"
    THEN IF rc = 0
         THEN [pc |-> "abortRets", rCount |-> rc, nCalls |-> nc, ret |-> None, asked |-> <<>>]
         ELSE [pc |-> "loop", rCount |-> rc - 1, nCalls |-> nc, ret |-> None, asked |-> <<>>]
    ELSE IF HasValue(blConv(insn))
    THEN IF nc = 1
         THEN [pc |-> "returned", rCount |-> rc, nCalls |-> nc, ret |-> blConv(insn),
               asked |-> <<"match">>]
         ELSE [pc |-> "loop", rCount |-> rc, nCalls |-> nc - 1, ret |-> None,
               asked |-> <<"match">>]
    ELSE [pc |-> "loop", rCount |-> rc, nCalls |-> nc, ret |-> None,
          asked |-> <<"match", "skip">>]

\* The loop body with the return cap tested after the decrement.
FindNthStepRetCapLate(insn, rc, nc, skip) ==
    IF insn.id = "RET"
    THEN IF rc - 1 = 0
         THEN [pc |-> "abortRets", rCount |-> rc, nCalls |-> nc, ret |-> None, asked |-> <<>>]
         ELSE [pc |-> "loop", rCount |-> rc - 1, nCalls |-> nc, ret |-> None, asked |-> <<>>]
    ELSE IF HasValue(blConv(insn))
    THEN IF nc = 1
         THEN [pc |-> "returned", rCount |-> rc, nCalls |-> nc, ret |-> blConv(insn),
               asked |-> <<"match">>]
         ELSE [pc |-> "loop", rCount |-> rc, nCalls |-> nc - 1, ret |-> None,
               asked |-> <<"match">>]
    ELSE IF insnMatch(skip, insn)
    THEN IF nc = 1
         THEN [pc |-> "abortSkip", rCount |-> rc, nCalls |-> nc, ret |-> None,
               asked |-> <<"match", "skip">>]
         ELSE [pc |-> "loop", rCount |-> rc, nCalls |-> nc - 1, ret |-> None,
               asked |-> <<"match", "skip">>]
    ELSE [pc |-> "loop", rCount |-> rc, nCalls |-> nc, ret |-> None,
          asked |-> <<"match", "skip">>]

\* The body of the loop for a validly decoded instruction (the branch
\* "if (res)"): the next control point, the two counters, the value returned
\* and the predicates that were called, in order.
FindNthStep(insn, rc, nc, skip) ==
    IF insn.id = "RET"                                       \* insn->id == ARM64_INS_RET
    THEN IF rc = 0
         THEN [pc |-> "abortRets", rCount |-> rc, nCalls |-> nc, ret |-> None, asked |-> <<>>]
         ELSE [pc |-> "loop", rCount |-> rc - 1, nCalls |-> nc, ret |-> None, asked |-> <<>>]
    ELSE IF HasValue(blConv(insn))                           \* testRes = match(insn)
    THEN IF nc = 1
         THEN [pc |-> "returned", rCount |-> rc, nCalls |-> nc, ret |-> blConv(insn),
               asked |-> <<"match">>]
         ELSE [pc |-> "loop", rCount |-> rc, nCalls |-> nc - 1, ret |-> None,
               asked |-> <<"match">>]
    ELSE IF insnMatch(skip, insn)                            \* else if (skip(insn))
    THEN IF nc = 1
         THEN [pc |-> "abortSkip", rCount |-> rc, nCalls |-> nc, ret |-> None,
               asked |-> <<"match", "skip">>]
         ELSE [pc |-> "loop", rCount |-> rc, nCalls |-> nc - 1, ret |-> None,
               asked |-> <<"match", "skip">>]
    ELSE [pc |-> "loop", rCount |-> rc, nCalls |-> nc, ret |-> None,
          asked |-> <<"match", "skip">>]

\* The loop condition letting one more instruction through.
LoopContinuesPastBudget(size) == size >= 0

\* while (sz > 0)
LoopContinues(size) == size > 0

InitFn ==
    /\ window \in {[k \in 1..WindowLen |-> Insn(ids[k], k)] : ids \in [1..WindowLen -> InsnIds]}
    /\ nToRetOn \in 1..WindowLen
    /\ retCount \in {-1, 0, 1}
    /\ szBytes \in {4 * w : w \in 1..WindowLen}
    /\ skipIds \in {{}, {"BLR"}}
    /\ fnPc = "entry"
    /\ rCount = 0 /\ nCalls = 0 /\ sz = 0 /\ ptr = 0
    /\ fnRet = None
    /\ asked = <<>>
    /\ DbmIdle
    /\ CtorIdle
    /\ EaIdle
    /\ TravIdle
    /\ SwIdle
    /\ RcIdle

\* The locals are initialised from the template arguments and the address.
FindNthEnter ==
    /\ fnPc = "entry"
    /\ rCount' = retCount
    /\ nCalls' = nToRetOn
    /\ sz' = szBytes
    /\ ptr' = window[1].address
    /\ fnPc' = "loop"
    /\ UNCHANGED <<window, nToRetOn, retCount, szBytes, skipIds, fnRet, asked,
                   dbmVars, ctorVars, eaVars, travVars, swVars, rcVars>>

\* bool res = cs_disasm_iter(handle, &instructions, &sz, &ptr, insn): a word
\* that decodes moves the cursor, the address and the size past the
\* instruction (4 bytes on arm64); on a word that does not, nothing moves.
cs_disasm_iter(insn, size, address) ==
    IF insn.id # "INVALID"
    THEN [res |-> TRUE, size |-> size - 4, address |-> address + 4]
    ELSE [res |-> FALSE, size |-> size, address |-> address]

\* The else branch with the size left where it was.
SkipInvalidKeepingSize(size, address) == [size |-> size, address |-> address + 4]

\* else { sz -= 4; ptr += 4; instructions += 4; }
SkipInvalid(size, address) == [size |-> size - 4, address |-> address + 4]

\* One iteration: cs_disasm_iter decodes the instruction at ptr, then the
\* body runs on it, or the else branch steps over the word.
FindNthIterate ==
    /\ fnPc = "loop"
    /\ LoopContinues(sz)
    /\ \E it \in {cs_disasm_iter(InsnAt(ptr), sz, ptr)} :
          IF it.res
          THEN \E r \in {FindNthStep(InsnAt(ptr), rCount, nCalls, skipIds)} :
                  /\ sz' = it.size
                  /\ ptr' = it.address
                  /\ fnPc' = r.pc
                  /\ rCount' = r.rCount
                  /\ nCalls' = r.nCalls
                  /\ fnRet' = r.ret
                  /\ asked' = asked \o [i \in DOMAIN r.asked |-> <<ptr, r.asked[i]>>]
          ELSE \E sk \in {SkipInvalid(it.size, it.address)} :
                  /\ sz' = sk.size
                  /\ ptr' = sk.address
                  /\ UNCHANGED <<fnPc, rCount, nCalls, fnRet, asked>>
    /\ UNCHANGED <<window, nToRetOn, retCount, szBytes, skipIds,
                   dbmVars, ctorVars, eaVars, travVars, swVars, rcVars>>

\* The bytes ran out: SAFE_ABORT_MSG("Could not find ... within size").
FindNthExhausted ==
    /\ fnPc = "loop"
    /\ ~LoopContinues(sz)
    /\ fnPc' = "abortSize"
    /\ UNCHANGED <<window, nToRetOn, retCount, szBytes, skipIds, rCount, nCalls, sz, ptr,
                   fnRet, asked, dbmVars, ctorVars, eaVars, travVars, swVars, rcVars>>

NextFn == FindNthEnter \/ FindNthIterate \/ FindNthExhausted

SpecFn == InitFn /\ [][NextFn]_vars

-----------------------------------------------------------------------------
(* struct Counter and its harness *)

\* Number of distinct non-null addresses.
MaxAddrs == 2

\* Largest count the harness drives an entry to.
MaxCount == 4

nullptr == 0

Addrs == 1..MaxAddrs

\* Counter::add: ++itr->second for an existing entry, emplace(addr, 1) otherwise.
add(reg, addr) ==
    IF addr \in DOMAIN reg
    THEN [reg EXCEPT ![addr] = @ + 1]
    ELSE [a \in DOMAIN reg \cup {addr} |-> IF a = addr THEN 1 ELSE reg[a]]

\* Counter::remove: the outcomes of one call, each the map afterwards and
\* whether the process faulted.  With an entry whose count exceeds 1 the
\* count is decremented; with any other entry the entry is erased; with no
\* entry the call is addrRefCount.erase(addrRefCount.end()), which is
\* undefined: the call may fault or may leave the map as it is.
remove(reg, addr) ==
    IF addr \in DOMAIN reg /\ reg[addr] > 1
    THEN {[reg |-> [reg EXCEPT ![addr] = @ - 1], fault |-> FALSE]}
    ELSE IF addr \in DOMAIN reg
    THEN {[reg |-> [a \in DOMAIN reg \ {addr} |-> reg[a]], fault |-> FALSE]}
    ELSE {[reg |-> reg, fault |-> FALSE], [reg |-> reg, fault |-> TRUE]}

\* Counter::get
get(reg, addr) == IF addr \in DOMAIN reg THEN reg[addr] ELSE 0

ObjectsIdle == objState = <<>> /\ objPtr = <<>> /\ objOwns = <<>>
GcIdle == gcHeap = <<>> /\ lastFree = None
ThreadsIdle == dtorPc = <<>>

InitCounter ==
    /\ addrRefCount = <<>>
    /\ crashed = FALSE
    /\ lastCall = None
    /\ ObjectsIdle
    /\ GcIdle
    /\ ThreadsIdle
    /\ DbmIdle
    /\ CtorIdle
    /\ EaIdle
    /\ TravIdle
    /\ SwIdle
    /\ FnIdle

CallAdd(addr) ==
    /\ ~crashed
    /\ get(addrRefCount, addr) < MaxCount
    /\ addrRefCount' = add(addrRefCount, addr)
    /\ lastCall' = Some([op |-> "add", addr |-> addr, before |-> addrRefCount, ret |-> 0])
    /\ UNCHANGED <<crashed, objState, objPtr, objOwns, gcHeap, lastFree,
                   dbmVars, ctorVars, eaVars, travVars, swVars, fnVars, dtorPc>>

CallRemove(addr) ==
    /\ ~crashed
    /\ \E r \in remove(addrRefCount, addr) :
          /\ addrRefCount' = r.reg
          /\ crashed' = r.fault
    /\ lastCall' = Some([op |-> "remove", addr |-> addr, before |-> addrRefCount, ret |-> 0])
    /\ UNCHANGED <<objState, objPtr, objOwns, gcHeap, lastFree,
                   dbmVars, ctorVars, eaVars, travVars, swVars, fnVars, dtorPc>>

CallGet(addr) ==
    /\ ~crashed
    /\ lastCall' = Some([op |-> "get", addr |-> addr, before |-> addrRefCount,
                          ret |-> get(addrRefCount, addr)])
    /\ UNCHANGED <<addrRefCount, crashed, objState, objPtr, objOwns, gcHeap, lastFree,
                   dbmVars, ctorVars, eaVars, travVars, swVars, fnVars, dtorPc>>

NextCounter == \E addr \in Addrs : CallAdd(addr) \/ CallRemove(addr) \/ CallGet(addr)

SpecCounter == InitCounter /\ [][NextCounter]_vars

-----------------------------------------------------------------------------
(* struct CountPointer and its harness *)

\* Number of objects a run constructs.
MaxObjects == 3

Objs == 1..MaxObjects

\* The body of the constructors from a raw pointer and by copy, on the map:
\* if (p) Counter::add(p).
CountPointerCtor(reg, p) == IF p # nullptr THEN add(reg, p) ELSE reg

\* ~CountPointer: if (ptr) Counter::remove(ptr).
CountPointerDtor(reg, held) ==
    IF held # nullptr THEN remove(reg, held) ELSE {[reg |-> reg, fault |-> FALSE]}

\* CountPointer::emplace(val), also operator=(T*): the outcomes as the map,
\* the pointer held afterwards and whether the process faulted.
CountPointerEmplace(reg, held, val) ==
    IF val # held
    THEN {[reg |-> IF r.fault THEN r.reg ELSE CountPointerCtor(r.reg, val),
           ptr |-> val, fault |-> r.fault] : r \in CountPointerDtor(reg, held)}
    ELSE {[reg |-> reg, ptr |-> held, fault |-> FALSE]}

InitObjects ==
    /\ addrRefCount = <<>>
    /\ crashed = FALSE
    /\ lastCall = None
    /\ objState = [o \in Objs |-> "unborn"]
    /\ objPtr = [o \in Objs |-> nullptr]
    /\ objOwns = [o \in Objs |-> FALSE]

InitCp ==
    /\ InitObjects
    /\ GcIdle
    /\ ThreadsIdle
    /\ DbmIdle
    /\ CtorIdle
    /\ EaIdle
    /\ TravIdle
    /\ SwIdle
    /\ FnIdle

\* explicit CountPointer() : ptr(nullptr) {}
CpDefault(o) ==
    /\ ~crashed /\ objState[o] = "unborn"
    /\ objState' = [objState EXCEPT ![o] = "live"]
    /\ objPtr' = [objPtr EXCEPT ![o] = nullptr]
    /\ UNCHANGED <<addrRefCount, crashed, lastCall, objOwns, gcHeap, lastFree,
                   dbmVars, ctorVars, eaVars, travVars, swVars, fnVars, dtorPc>>

\* explicit CountPointer(T* p)
CpFromRaw(o, p) ==
    /\ ~crashed /\ objState[o] = "unborn"
    /\ objState' = [objState EXCEPT ![o] = "live"]
    /\ objPtr' = [objPtr EXCEPT ![o] = p]
    /\ objOwns' = [objOwns EXCEPT ![o] = p # nullptr]
    /\ addrRefCount' = CountPointerCtor(addrRefCount, p)
    /\ UNCHANGED <<crashed, lastCall, gcHeap, lastFree,
                   dbmVars, ctorVars, eaVars, travVars, swVars, fnVars, dtorPc>>

\* CountPointer(const CountPointer<T>& other)
CpCopy(o, other) ==
    /\ ~crashed /\ objState[o] = "unborn" /\ objState[other] = "live"
    /\ objState' = [objState EXCEPT ![o] = "live"]
    /\ objPtr' = [objPtr EXCEPT ![o] = objPtr[other]]
    /\ objOwns' = [objOwns EXCEPT ![o] = objPtr[other] # nullptr]
    /\ addrRefCount' = CountPointerCtor(addrRefCount, objPtr[other])
    /\ UNCHANGED <<crashed, lastCall, gcHeap, lastFree,
                   dbmVars, ctorVars, eaVars, travVars, swVars, fnVars, dtorPc>>

\* CountPointer(CountPointer&& other) = default: the member ptr is a raw
\* pointer, so it is copied and other keeps its value; no Counter call.
\* (History: the share of the count passes from other to the new object.)
CpMove(o, other) ==
    /\ ~crashed /\ objState[o] = "unborn" /\ objState[other] = "live"
    /\ objState' = [objState EXCEPT ![o] = "live"]
    /\ objPtr' = [objPtr EXCEPT ![o] = objPtr[other]]
    /\ objOwns' = [objOwns EXCEPT ![o] = objOwns[other], ![other] = FALSE]
    /\ UNCHANGED <<addrRefCount, crashed, lastCall, gcHeap, lastFree,
                   dbmVars, ctorVars, eaVars, travVars, swVars, fnVars, dtorPc>>

\* emplace(T* val) and operator=(T* val)
CpEmplace(o, val) ==
    /\ ~crashed /\ objState[o] = "live"
    /\ \E r \in CountPointerEmplace(addrRefCount, objPtr[o], val) :
          /\ addrRefCount' = r.reg
          /\ crashed' = r.fault
          /\ objPtr' = [objPtr EXCEPT ![o] = r.ptr]
    /\ objOwns' = [objOwns EXCEPT ![o] = IF val # objPtr[o] THEN val # nullptr ELSE @]
    /\ UNCHANGED <<lastCall, objState, gcHeap, lastFree,
                   dbmVars, ctorVars, eaVars, travVars, swVars, fnVars, dtorPc>>

\* ~CountPointer()
CpDestroy(o) ==
    /\ ~crashed /\ objState[o] = "live"
    /\ objState' = [objState EXCEPT ![o] = "destroyed"]
    /\ \E r \in CountPointerDtor(addrRefCount, objPtr[o]) :
          /\ addrRefCount' = r.reg
          /\ crashed' = r.fault
    /\ UNCHANGED <<lastCall, objPtr, objOwns, gcHeap, lastFree,
                   dbmVars, ctorVars, eaVars, travVars, swVars, fnVars, dtorPc>>

NextCp ==
    \E o \in Objs :
        \/ CpDefault(o)
        \/ \E p \in Addrs \cup {nullptr} : CpFromRaw(o, p) \/ CpEmplace(o, p)
        \/ \E other \in Objs \ {o} : CpCopy(o, other) \/ CpMove(o, other)
        \/ CpDestroy(o)

SpecCp == InitCp /\ [][NextCp]_vars

-----------------------------------------------------------------------------
(* struct SafePtr and its harness *)

\* The instances a SafePtr is made to wrap.
Instances == {"x", "y"}

\* SafePointerWrapper::New(instance): GarbageCollector_AllocateFixed hands out
\* an address that is not allocated at present (one freed before may come
\* back) and the instance pointer is stored in it.  The outcomes, each the
\* handle returned and the heap afterwards.
New(heap, instance) ==
    {[handle |-> h,
      heap |-> [a \in DOMAIN heap \cup {h} |-> IF a = h THEN instance ELSE heap[a]]] :
        h \in Addrs \ DOMAIN heap}

\* il2cpp_functions::GC_free(handle)
GC_free(heap, handle) == [a \in DOMAIN heap \ {handle} |-> heap[a]]

\* Whether the body of ~SafePtr reaches GC_free: there is a handle and
\* internalHandle.count() <= 1.
DtorFrees(reg, held) == held # nullptr /\ get(reg, held) <= 1

\* What is recorded of a GC_free in ~SafePtr: the handle, whether the GC
\* still had it allocated, and the other live owners.
FreeEntry(o) ==
    [handle |-> objPtr[o], allocated |-> objPtr[o] \in DOMAIN gcHeap,
     others |-> {q \in Objs \ {o} : objState[q] = "live" /\ objOwns[q] /\ objPtr[q] = objPtr[o]}]

InitSp ==
    /\ InitObjects
    /\ gcHeap = <<>>
    /\ lastFree = None
    /\ ThreadsIdle
    /\ DbmIdle
    /\ CtorIdle
    /\ EaIdle
    /\ TravIdle
    /\ SwIdle
    /\ FnIdle

\* SafePtr() {}
SpDefault(o) ==
    /\ ~crashed /\ objState[o] = "unborn"
    /\ objState' = [objState EXCEPT ![o] = "live"]
    /\ objPtr' = [objPtr EXCEPT ![o] = nullptr]
    /\ UNCHANGED <<addrRefCount, crashed, lastCall, objOwns, gcHeap, lastFree,
                   dbmVars, ctorVars, eaVars, travVars, swVars, fnVars, dtorPc>>

\* SafePtr(T* wrappableInstance) and SafePtr(T& wrappableInstance):
\* internalHandle(SafePointerWrapper::New(...)).
SpFromInstance(o, instance) ==
    /\ ~crashed /\ objState[o] = "unborn"
    /\ \E n \in New(gcHeap, instance) :
          /\ gcHeap' = n.heap
          /\ objPtr' = [objPtr EXCEPT ![o] = n.handle]
          /\ addrRefCount' = CountPointerCtor(addrRefCount, n.handle)
    /\ objState' = [objState EXCEPT ![o] = "live"]
    /\ objOwns' = [objOwns EXCEPT ![o] = TRUE]
    /\ UNCHANGED <<crashed, lastCall, lastFree,
                   dbmVars, ctorVars, eaVars, travVars, swVars, fnVars, dtorPc>>

\* SafePtr(const SafePtr& other) : internalHandle(other.internalHandle) {}
SpCopy(o, other) ==
    /\ ~crashed /\ objState[o] = "unborn" /\ objState[other] = "live"
    /\ objState' = [objState EXCEPT ![o] = "live"]
    /\ objPtr' = [objPtr EXCEPT ![o] = objPtr[other]]
    /\ objOwns' = [objOwns EXCEPT ![o] = objPtr[other] # nullptr]
    /\ addrRefCount' = CountPointerCtor(addrRefCount, objPtr[other])
    /\ UNCHANGED <<crashed, lastCall, gcHeap, lastFree,
                   dbmVars, ctorVars, eaVars, travVars, swVars, fnVars, dtorPc>>

\* SafePtr(SafePtr&& other) = default: internalHandle is moved by
\* CountPointer's defaulted move constructor, which copies the pointer.
SpMove(o, other) ==
    /\ ~crashed /\ objState[o] = "unborn" /\ objState[other] = "live"
    /\ objState' = [objState EXCEPT ![o] = "live"]
    /\ objPtr' = [objPtr EXCEPT ![o] = objPtr[other]]
    /\ objOwns' = [objOwns EXCEPT ![o] = objOwns[other], ![other] = FALSE]
    /\ UNCHANGED <<addrRefCount, crashed, lastCall, gcHeap, lastFree,
                   dbmVars, ctorVars, eaVars, travVars, swVars, fnVars, dtorPc>>

\* ~SafePtr(): the body, then the destructor of the member internalHandle.
SpDestroy(o) ==
    /\ ~crashed /\ objState[o] = "live"
    /\ objState' = [objState EXCEPT ![o] = "destroyed"]
    /\ IF DtorFrees(addrRefCount, objPtr[o])
       THEN /\ gcHeap' = GC_free(gcHeap, objPtr[o])
            /\ lastFree' = Some(FreeEntry(o))
       ELSE UNCHANGED <<gcHeap, lastFree>>
    /\ \E r \in CountPointerDtor(addrRefCount, objPtr[o]) :
          /\ addrRefCount' = r.reg
          /\ crashed' = r.fault
    /\ UNCHANGED <<lastCall, objPtr, objOwns,
                   dbmVars, ctorVars, eaVars, travVars, swVars, fnVars, dtorPc>>

\* emplace(T* other), emplace(T& other), operator=(T*) and operator=(T&):
\* this->~SafePtr() runs the destructor body and destroys internalHandle,
\* whose ptr keeps its value; then New allocates and CountPointer's
\* operator=(T*) emplaces the new handle over the old one.
SpEmplace(o, instance) ==
    /\ ~crashed /\ objState[o] = "live"
    /\ lastFree' = IF DtorFrees(addrRefCount, objPtr[o]) THEN Some(FreeEntry(o)) ELSE lastFree
    /\ \E d \in CountPointerDtor(addrRefCount, objPtr[o]) :
          IF d.fault
          THEN /\ crashed' = TRUE
               /\ addrRefCount' = d.reg
               /\ gcHeap' = IF DtorFrees(addrRefCount, objPtr[o])
                             THEN GC_free(gcHeap, objPtr[o]) ELSE gcHeap
               /\ UNCHANGED <<objPtr, objOwns>>
          ELSE \E n \in New(IF DtorFrees(addrRefCount, objPtr[o])
                             THEN GC_free(gcHeap, objPtr[o]) ELSE gcHeap, instance) :
                 \E r \in CountPointerEmplace(d.reg, objPtr[o], n.handle) :
                    /\ gcHeap' = n.heap
                    /\ addrRefCount' = r.reg
                    /\ crashed' = r.fault
                    /\ objPtr' = [objPtr EXCEPT ![o] = r.ptr]
                    /\ objOwns' = [objOwns EXCEPT ![o] = TRUE]
    /\ UNCHANGED <<lastCall, objState,
                   dbmVars, ctorVars, eaVars, travVars, swVars, fnVars, dtorPc>>

\* emplace(CountPointer<T>&) and move(CountPointer<T>&) assign a CountPointer
\* to internalHandle; CountPointer declares a move constructor, so its copy
\* assignment is deleted and it has no move assignment: neither member can
\* be instantiated, and no run contains them.
NextSp ==
    \E o \in Objs :
        \/ SpDefault(o)
        \/ \E instance \in Instances : SpFromInstance(o, instance) \/ SpEmplace(o, instance)
        \/ \E other \in Objs \ {o} : SpCopy(o, other) \/ SpMove(o, other)
        \/ SpDestroy(o)

SpecSp == InitSp /\ [][NextSp]_vars

-----------------------------------------------------------------------------
(* SafePtr copies destroyed by concurrent threads *)

\* The state after SafePtr<T> a(instance) and n - 1 copies of it: n live
\* objects hold one wrapper whose count is n.  Each is then destroyed by a
\* thread of its own.
InitThreads ==
    /\ \E n \in Objs, instance \in Instances :
          \E w \in New(<<>>, instance) :
             /\ gcHeap = w.heap
             /\ addrRefCount = (w.handle :> n)
             /\ objState = [o \in Objs |-> IF o <= n THEN "live" ELSE "unborn"]
             /\ objPtr = [o \in Objs |-> IF o <= n THEN w.handle ELSE nullptr]
             /\ objOwns = [o \in Objs |-> o <= n]
             /\ dtorPc = [o \in Objs |-> IF o <= n THEN "start" ELSE "idle"]
    /\ crashed = FALSE
    /\ lastCall = None
    /\ lastFree = None
    /\ DbmIdle
    /\ CtorIdle
    /\ EaIdle
    /\ TravIdle
    /\ SwIdle
    /\ FnIdle

\* ~SafePtr(), up to the test: if (!internalHandle) return;
\* if (internalHandle.count() <= 1) ...  Counter::get holds the lock for the
\* length of the read only.
DtorCheck(o) ==
    /\ ~crashed /\ dtorPc[o] = "start"
    /\ dtorPc' = [dtorPc EXCEPT ![o] = IF DtorFrees(addrRefCount, objPtr[o])
                                        THEN "free" ELSE "member"]
    /\ UNCHANGED <<addrRefCount, crashed, lastCall, objState, objPtr, objOwns, gcHeap,
                   lastFree, dbmVars, ctorVars, eaVars, travVars, swVars, fnVars>>

\* il2cpp_functions::GC_free(internalHandle.__internal_get());
DtorFree(o) ==
    /\ ~crashed /\ dtorPc[o] = "free"
    /\ gcHeap' = GC_free(gcHeap, objPtr[o])
    /\ lastFree' = Some(FreeEntry(o))
    /\ dtorPc' = [dtorPc EXCEPT ![o] = "member"]
    /\ UNCHANGED <<addrRefCount, crashed, lastCall, objState, objPtr, objOwns,
                   dbmVars, ctorVars, eaVars, travVars, swVars, fnVars>>

\* After the body, the member internalHandle is destroyed: ~CountPointer
\* calls Counter::remove(ptr).
DtorMember(o) ==
    /\ ~crashed /\ dtorPc[o] = "member"
    /\ \E r \in CountPointerDtor(addrRefCount, objPtr[o]) :
          /\ addrRefCount' = r.reg
          /\ crashed' = r.fault
    /\ objState' = [objState EXCEPT ![o] = "destroyed"]
    /\ dtorPc' = [dtorPc EXCEPT ![o] = "done"]
    /\ UNCHANGED <<lastCall, objPtr, objOwns, gcHeap, lastFree,
                   dbmVars, ctorVars, eaVars, travVars, swVars, fnVars>>

NextThreads == \E o \in Objs : DtorCheck(o) \/ DtorFree(o) \/ DtorMember(o)

SpecThreads == InitThreads /\ [][NextThreads]_vars

-----------------------------------------------------------------------------
(* The dependency-tracking traversal *)

\* Size of the code region in words; words outside it read as zero.
MemWords == 3

\* A cap on the heap of nodes.  A run over a region of MemWords words
\* allocates the root and at most two nodes per expansion of a word of the
\* region (the entry possibly expanded twice), so the cap is never reached.
MaxNodes == 2 * MemWords + 4

\* The address of word k (1-based) of the region, which starts at 0x1000.
AddrOfWord(k) == I64(4096 + 4 * (k - 1))

\* *pc: the code word under a pointer.
ReadWord(pc) ==
    IF \E k \in 1..Len(mem) : AddrOfWord(k) = pc
    THEN mem[CHOOSE k \in 1..Len(mem) : AddrOfWord(k) = pc]
    ELSE {}

Registers == 0..31

\* ParseState(): every register depends on itself only.
InitialDependencyMap == [r \in Registers |-> {r}]

InitialParseState ==
    [codeToInstTree |-> <<>>, frontier |-> <<>>,
     dependencyMap |-> InitialDependencyMap, functionCandidates |-> <<>>]

\* Instruction::isReturn, isDirectBranch, isCall, isUnconditionalBranch.
isReturn(i) == i.branchType = "RET"
isDirectBranch(i) == i.branchType \in {"DIR", "DIRCALL"}
isCall(i) == i.branchType \in {"DIRCALL", "INDCALL"}
isUnconditionalBranch(i) ==
    \/ i.branchType = "INDIR"
    \/ i.branchType = "DIR" /\ Len(i.kind) >= 2 /\ i.kind[2] = "Unconditional branch (immediate)"

\* The traversal's working state while one constructor statement runs:
\* [ps |-> ParseState, nodes |-> heap, abort |-> a fatal abort was reached].
\* A node is its index in the heap; 0 is the null pointer.

\* The creation of a node that is not recorded in codeToInstTree.
CreateInstructionNoMemo(pc, st, d) ==
    [st |-> [ps |-> [st.ps EXCEPT
                        !.frontier = Append(@, [node |-> Len(st.nodes) + 1,
                                                depMap |-> st.ps.dependencyMap])],
             nodes |-> Append(st.nodes, [inst |-> d.rec, branch |-> 0, noBranch |-> 0]),
             abort |-> st.abort \/ ~d.assertOk],
     node |-> Len(st.nodes) + 1]

\* The creating half with the frontier worked as a queue: the new entry goes
\* under the entries already pending.
CreateInstructionPushUnder(pc, st, d) ==
    [st |-> [ps |-> [st.ps EXCEPT
                        !.frontier = <<[node |-> Len(st.nodes) + 1,
                                        depMap |-> st.ps.dependencyMap]>> \o @,
                        !.codeToInstTree = (pc :> (Len(st.nodes) + 1)) @@ @],
             nodes |-> Append(st.nodes, [inst |-> d.rec, branch |-> 0, noBranch |-> 0]),
             abort |-> st.abort \/ ~d.assertOk],
     node |-> Len(st.nodes) + 1]

\* FindOrCreateInstruction, the creating half: d is the Instruction decoded at
\* pc.  The node is allocated, recorded in codeToInstTree and pushed on the
\* frontier with a copy of the active dependency map.
CreateInstruction(pc, st, d) ==
    [st |-> [ps |-> [st.ps EXCEPT
                        !.frontier = Append(@, [node |-> Len(st.nodes) + 1,
                                                depMap |-> st.ps.dependencyMap]),
                        !.codeToInstTree = (pc :> (Len(st.nodes) + 1)) @@ @],
             nodes |-> Append(st.nodes, [inst |-> d.rec, branch |-> 0, noBranch |-> 0]),
             abort |-> st.abort \/ ~d.assertOk],
     node |-> Len(st.nodes) + 1]

\* The same function letting the last arrival win: on a hit the snapshot
\* stored with the pending node is replaced by the active dependency map.
FindOrCreateInstructionLastArrival(pc, st) ==
    IF pc \in DOMAIN st.ps.codeToInstTree
    THEN [st |-> [st EXCEPT !.ps.frontier =
                      [i \in DOMAIN @ |->
                          IF @[i].node = st.ps.codeToInstTree[pc]
                          THEN [@[i] EXCEPT !.depMap = st.ps.dependencyMap]
                          ELSE @[i]]],
          node |-> st.ps.codeToInstTree[pc]]
    ELSE CreateInstruction(pc, st, Instruction(ReadWord(pc), pc))

\* Returns the state after the call and the node returned.
FindOrCreateInstruction(pc, st) ==
    IF pc \in DOMAIN st.ps.codeToInstTree
    THEN [st |-> st, node |-> st.ps.codeToInstTree[pc]]
    ELSE CreateInstruction(pc, st, Instruction(ReadWord(pc), pc))

\* The same function accumulating into depMap[Rd] instead of replacing it.
ProcessRegisterDependenciesRdAccumulate(i, Rd, depMap) ==
    IF \E j \in 1..i.numSourceRegisters : i.Rs[j] < 0 \/ i.Rs[j] >= 32
    THEN [abort |-> TRUE, depMap |-> depMap]
    ELSE [abort |-> FALSE,
          depMap |-> [depMap EXCEPT
                         ![Rd] = @ \cup UNION {depMap[i.Rs[j]] : j \in 1..i.numSourceRegisters}]]

\* ProcessRegisterDependencies(inst, Rd, depMap): depMap[Rd] becomes the union
\* of the sets of the first numSourceRegisters sources; a source index outside
\* 0..31 is a fatal abort.
ProcessRegisterDependenciesRd(i, Rd, depMap) ==
    IF \E j \in 1..i.numSourceRegisters : i.Rs[j] < 0 \/ i.Rs[j] >= 32
    THEN [abort |-> TRUE, depMap |-> depMap]
    ELSE [abort |-> FALSE,
          depMap |-> [depMap EXCEPT
                         ![Rd] = UNION {depMap[i.Rs[j]] : j \in 1..i.numSourceRegisters}]]

\* The Rd2 half of ProcessRegisterDependencies(inst, depMap); a is the outcome
\* of the Rd half.
ProcessRd2(i, a) ==
    IF i.Rd2 >= 0 /\ ~a.abort THEN ProcessRegisterDependenciesRd(i, i.Rd2, a.depMap) ELSE a

\* ProcessRegisterDependencies(inst, depMap): Rd first, then Rd2.
ProcessRegisterDependencies(i, depMap) ==
    ProcessRd2(i, IF i.Rd >= 0 THEN ProcessRegisterDependenciesRd(i, i.Rd, depMap)
                  ELSE [abort |-> FALSE, depMap |-> depMap])

\* The dependency update of PopulateChildren; d is its outcome.
UpdateDependencies(st, d) == [st EXCEPT !.ps.dependencyMap = d.depMap, !.abort = d.abort]

\* The branch link recording the call site instead of the call target.
LinkBranchCallSite(id, f) ==
    IF isCall(f.st.nodes[id].inst) /\ f.st.nodes[id].inst.addr \notin DOMAIN f.st.ps.functionCandidates
    THEN [f.st EXCEPT !.nodes[id].branch = f.node,
                      !.ps.functionCandidates =
                          (f.st.nodes[id].inst.addr :> f.st.ps.dependencyMap) @@ @]
    ELSE [f.st EXCEPT !.nodes[id].branch = f.node]

\* branch = FindOrCreateInstruction(addr, ...), f being that call's outcome,
\* and functionCandidates.insert({addr, dependencyMap}) for a call: insert
\* keeps the entry of a key the map already has.
LinkBranch(id, f) ==
    IF isCall(f.st.nodes[id].inst)
       /\ Value(f.st.nodes[id].inst.label) \notin DOMAIN f.st.ps.functionCandidates
    THEN [f.st EXCEPT !.nodes[id].branch = f.node,
                      !.ps.functionCandidates =
                          (Value(f.st.nodes[id].inst.label) :> f.st.ps.dependencyMap) @@ @]
    ELSE [f.st EXCEPT !.nodes[id].branch = f.node]

\* if (isDirectBranch()) { ... }
TakenBranch(id, st) ==
    IF st.abort \/ ~isDirectBranch(st.nodes[id].inst) THEN st
    ELSE IF ~HasValue(st.nodes[id].inst.label) THEN [st EXCEPT !.abort = TRUE]   \* CRASH_UNLESS
    ELSE LinkBranch(id, FindOrCreateInstruction(Value(st.nodes[id].inst.label), st))

\* noBranch = FindOrCreateInstruction(pc + 1, ...), f being that call's outcome.
LinkNoBranch(id, f) == [f.st EXCEPT !.nodes[id].noBranch = f.node]

\* The same step without the test: the next word is linked after every
\* instruction.
FallThroughAlways(id, st) ==
    IF st.abort THEN st
    ELSE LinkNoBranch(id, FindOrCreateInstruction(Add64(st.nodes[id].inst.addr, {2}), st))

\* if (!isUnconditionalBranch()) { ... }
FallThrough(id, st) ==
    IF st.abort \/ isUnconditionalBranch(st.nodes[id].inst) THEN st
    ELSE LinkNoBranch(id, FindOrCreateInstruction(Add64(st.nodes[id].inst.addr, {2}), st))

\* The same function without the return test: a return is processed like
\* any other instruction.
PopulateChildrenPastReturn(id, st) ==
    IF ~st.nodes[id].inst.parsed \/ ~st.nodes[id].inst.valid THEN st
    ELSE FallThrough(id, TakenBranch(id,
             UpdateDependencies(st, ProcessRegisterDependencies(st.nodes[id].inst,
                                                                st.ps.dependencyMap))))

\* InstructionTree::PopulateChildren(parseState) on node id.  The test of
\* Rs[numSourceRegisters - 1] before the return test only writes a log line
\* (with numSourceRegisters = 0 it reads Rs[-1], whose value decides nothing
\* but that line), so it changes no state.
PopulateChildren(id, st) ==
    IF ~st.nodes[id].inst.parsed \/ ~st.nodes[id].inst.valid THEN st
    ELSE IF isReturn(st.nodes[id].inst) THEN st
    ELSE FallThrough(id, TakenBranch(id,
             UpdateDependencies(st, ProcessRegisterDependencies(st.nodes[id].inst,
                                                                st.ps.dependencyMap))))

-----------------------------------------------------------------------------
(* AssemblyFunction::AssemblyFunction(pc): the driver *)

\* MOV x5, xzr ; ADD x2, x0, x1 ; ADD x0, x0, x1 ; LDP x0, x4, [x0] ;
\* LDP x3, x4, [x0] ; BL +8 ; BL -4 ; B -4 ; B.NE -8 ; RET ; a zero word.

Palette ==
    {Hex(43551, 997), Hex(35585, 2), Hex(35585, 0), Hex(43328, 4096),
     Hex(43328, 4099), Hex(37888, 2), Hex(38911, 65535), Hex(6143, 65535),
     Hex(21759, 65473), Hex(54879, 960), {}}

InitTrav ==
    /\ mem \in [1..MemWords -> Palette]
    /\ entry = AddrOfWord(1)
    /\ nodes = <<>>
    /\ parseState = InitialParseState
    /\ drv = "start"
    /\ expansions = <<>>
    /\ DbmIdle
    /\ CtorIdle
    /\ EaIdle
    /\ SwIdle
    /\ FnIdle
    /\ RcIdle

\* auto root = new InstructionTree(pc); frontier.push({root, dependencyMap});
Begin ==
    /\ drv = "start"
    /\ \E d \in {Instruction(ReadWord(entry), entry)} :
          /\ nodes' = <<[inst |-> d.rec, branch |-> 0, noBranch |-> 0]>>
          /\ parseState' = [parseState EXCEPT
                               !.frontier = Append(@, [node |-> 1, depMap |-> parseState.dependencyMap])]
          /\ drv' = IF d.assertOk THEN "loop" ELSE "aborted"
    /\ UNCHANGED <<mem, entry, expansions, dbmVars, ctorVars, eaVars, swVars, fnVars, rcVars>>

\* One iteration of while (!frontier.empty()): pop the top entry, install its
\* snapshot as the active dependency map and expand its node.
DriverStep ==
    /\ drv = "loop"
    /\ parseState.frontier # <<>>
    /\ Len(nodes) < MaxNodes
    /\ \E p \in {parseState.frontier[Len(parseState.frontier)]} :
       \E r \in {PopulateChildren(p.node,
                      [ps |-> [parseState EXCEPT
                                  !.frontier = SubSeq(@, 1, Len(@) - 1),
                                  !.dependencyMap = p.depMap],
                       nodes |-> nodes, abort |-> FALSE])} :
          /\ parseState' = r.ps
          /\ nodes' = r.nodes
          /\ drv' = IF r.abort THEN "aborted" ELSE "loop"
          /\ expansions' = Append(expansions, [node |-> p.node, pre |-> p.depMap,
                                                post |-> r.ps.dependencyMap])
    /\ UNCHANGED <<mem, entry, dbmVars, ctorVars, eaVars, swVars, fnVars, rcVars>>

\* The loop ends on an empty frontier; the candidates are logged.
Finish ==
    /\ drv = "loop"
    /\ parseState.frontier = <<>>
    /\ drv' = "done"
    /\ UNCHANGED <<mem, entry, nodes, parseState, expansions, dbmVars, ctorVars, eaVars, swVars, fnVars, rcVars>>

NextTrav == Begin \/ DriverStep \/ Finish

Spec == InitTrav /\ [][NextTrav]_vars

\* The same constructor over programs of branches:
\* CBZ x1, +8 ; TBZ w0, #3, -4 ; B.NE +8 ; B +8 ; BL +8 ; BR x0 ; BLR x0 ;
\* RET ; ADD x0, x0, x1 ; BRAAZ x0 (not decoded to the last level) ; a zero word.
BranchPalette ==
    {Hex(46080, 65), Hex(13855, 65504), Hex(21504, 65), Hex(5120, 2),
     Hex(37888, 2), Hex(54815, 0), Hex(54847, 0), Hex(54879, 960),
     Hex(35585, 0), Hex(54815, 2079), {}}

InitBranches ==
    /\ mem \in [1..MemWords -> BranchPalette]
    /\ entry = AddrOfWord(1)
    /\ nodes = <<>>
    /\ parseState = InitialParseState
    /\ drv = "start"
    /\ expansions = <<>>
    /\ DbmIdle
    /\ CtorIdle
    /\ EaIdle
    /\ SwIdle
    /\ FnIdle
    /\ RcIdle

SpecBranches == InitBranches /\ [][NextTrav]_vars

\* The same constructor over programs of compares:
\* CMP x0, #1 ; CMN x1, #1 ; CMP x0, x1 ; CMN x0, x2 ; CMP x0, w1, UXTW ;
\* CMN x2, w3, UXTW ; ADD x0, x0, x1 ; SUBS x3, x0, #1 ; RET.
ComparePalette ==
    {Hex(61696, 1055), Hex(45312, 1087), Hex(60161, 31), Hex(43778, 31),
     Hex(60193, 16415), Hex(43811, 16479), Hex(35585, 0), Hex(61696, 1027),
     Hex(54879, 960)}

InitCompares ==
    /\ mem \in [1..MemWords -> ComparePalette]
    /\ entry = AddrOfWord(1)
    /\ nodes = <<>>
    /\ parseState = InitialParseState
    /\ drv = "start"
    /\ expansions = <<>>
    /\ DbmIdle
    /\ CtorIdle
    /\ EaIdle
    /\ SwIdle
    /\ FnIdle
    /\ RcIdle

SpecCompares == InitCompares /\ [][NextTrav]_vars

-----------------------------------------------------------------------------
(* Properties of the traversal *)

\* The instruction and the address of the k-th expansion.
ExpInst(k) == nodes[expansions[k].node].inst
ExpAddr(k) == ExpInst(k).addr

\* The expansions that ran past the early returns of PopulateChildren.
Processed == {k \in 1..Len(expansions) :
                 ExpInst(k).parsed /\ ExpInst(k).valid /\ ~isReturn(ExpInst(k))}

\* The destination registers of an instruction.
Dests(i) == {i.Rd, i.Rd2} \cap Registers

\* C1: PopulateChildren runs on a node of any one address at most once, the
\* entry address included: no two expansions of a run have the same address.
EachAddressExpandedAtMostOnce ==
    \A j, k \in 1..Len(expansions) : j # k => ExpAddr(j) # ExpAddr(k)

\* C2: the driver loop terminates, loops and branches back to the entry
\* included.  Stated with a variant: every iteration moves one node from the
\* frontier to the expanded ones, every allocated node is in exactly one of the
\* two, the number of allocated nodes stays below a bound that depends on the
\* size of the region only, and the run is never aborted, so that the loop
\* reaches an empty frontier after at most that many iterations.
DriverTerminates ==
    /\ [](/\ drv \in {"start", "loop", "done"}
          /\ Len(nodes) < MaxNodes
          /\ drv # "start" => Len(expansions) + Len(parseState.frontier) = Len(nodes)
          /\ drv = "done" => parseState.frontier = <<>>)
    /\ [][drv = "loop" /\ drv' = "loop" => Len(expansions') = Len(expansions) + 1]_vars

\* A finished run that expanded a direct branch back to the entry address.
DriverTerminatesWitness ==
    /\ drv = "done"
    /\ \E k \in Processed :
          isDirectBranch(ExpInst(k)) /\ ExpInst(k).label = Some(entry) /\ ExpAddr(k) # entry

\* C3: after the expansion of a parsed, valid, non-return instruction with a
\* destination and at least one source, each destination's set is the union of
\* the sets the sources had before the expansion, and the set of every
\* register that is not a destination is what it was before.
DestinationGetsUnionOfSources ==
    \A k \in Processed :
        (ExpInst(k).numSourceRegisters >= 1 /\ Dests(ExpInst(k)) # {}) =>
            /\ \A D \in Dests(ExpInst(k)) : \A x \in Registers :
                   x \in expansions[k].post[D] <=>
                       \E j \in 1..ExpInst(k).numSourceRegisters :
                           x \in expansions[k].pre[ExpInst(k).Rs[j]]
            /\ \A r \in Registers \ Dests(ExpInst(k)) :
                   expansions[k].post[r] = expansions[k].pre[r]

\* A paired load whose first destination is also its source was expanded when
\* that source depended on two registers, and both destinations got that set.
DestinationGetsUnionOfSourcesWitness ==
    \E k \in Processed :
        /\ ExpInst(k).Rd2 >= 0 /\ ExpInst(k).numSourceRegisters = 1
        /\ ExpInst(k).Rd = ExpInst(k).Rs[1] /\ ExpInst(k).Rd2 # ExpInst(k).Rd
        /\ Cardinality(expansions[k].pre[ExpInst(k).Rd]) = 2
        /\ expansions[k].post[ExpInst(k).Rd2] = expansions[k].pre[ExpInst(k).Rd]
        /\ expansions[k].post[ExpInst(k).Rd] = expansions[k].pre[ExpInst(k).Rd]

\* C4: after the expansion of a parsed, valid instruction with a destination D
\* and no source register, the set of D is exactly {D}.
NoSourceDestinationDependsOnItself ==
    \A k \in Processed :
        (ExpInst(k).numSourceRegisters = 0 /\ ExpInst(k).Rd >= 0) =>
            expansions[k].post[ExpInst(k).Rd] = {ExpInst(k).Rd}

\* The expansions of direct calls.
CallExpansions == {k \in Processed : isDirectBranch(ExpInst(k)) /\ isCall(ExpInst(k))}

\* C5: when a run completes, the function-candidate addresses are exactly the
\* labels of the direct calls that were expanded, and each candidate's snapshot
\* is the dependency map as it was after the dependency update of a call to it.
FunctionCandidatesAreCallTargets ==
    drv = "done" =>
        /\ DOMAIN parseState.functionCandidates = {Value(ExpInst(k).label) : k \in CallExpansions}
        /\ \A a \in DOMAIN parseState.functionCandidates :
               \E k \in CallExpansions :
                   /\ Value(ExpInst(k).label) = a
                   /\ parseState.functionCandidates[a] = expansions[k].post

\* A finished run with a call whose target node had been allocated before the
\* calling node was, so that the target was memoized when the call was expanded.
FunctionCandidatesAreCallTargetsWitness ==
    /\ drv = "done"
    /\ \E k \in CallExpansions :
          /\ nodes[expansions[k].node].branch # 0
          /\ nodes[expansions[k].node].branch < expansions[k].node
          /\ Value(ExpInst(k).label) \in DOMAIN parseState.functionCandidates

-----------------------------------------------------------------------------
(* Properties of the Instruction constructor *)

TopPatternNames == {"invalid", "dpreg", "simd", "dpimm", "branch", "ldst"}
GapKind == "ERROR: Our top-level bit patterns have a gap!"

\* C6: the constructor never reaches an abort or a failing assert; the op0
\* field of every word matches exactly one pattern of the top-level chain, the
\* gap branch is never taken, and a record that was not classified down to the
\* last level only has parsed = FALSE and/or valid = FALSE to say so.
ConstructorClassifiesEveryWord ==
    /\ ctorOutcome # "aborted"
    /\ ctorOutcome = "constructed" =>
          /\ Cardinality({f \in TopPatternNames :
                             TopPatternMatches(bits(code, 28, 25))[f]}) = 1
          /\ \A l \in 1..Len(Value(inst).kind) : Value(inst).kind[l] # GapKind
          /\ Len(Value(inst).kind) \in 1..KindLevels
          /\ Len(Value(inst).kind) < KindLevels => ~Value(inst).parsed

\* A word of the Data-processing (3 source) family that reaches the assert on
\* its op31 field, and passes it, was constructed.
ConstructorClassifiesEveryWordWitness ==
    /\ ctorOutcome = "constructed"
    /\ Len(Value(inst).kind) = KindLevels
    /\ Value(inst).kind[2] = "Data-processing (3 source)"
    /\ Value(inst).kind[3] \in {"UMULH", "SMULH"}

\* C7: every record that carries the UNALLOCATED label at any level, every
\* record of a word with op0 <= 3 and every Logical (immediate) record whose
\* immediate is the all-ones sentinel has valid = FALSE.
UnallocatedIsInvalid ==
    ctorOutcome = "constructed" =>
        ((\/ \E l \in 1..Len(Value(inst).kind) : Value(inst).kind[l] = unalloc
          \/ bits(code, 28, 25) <= 3
          \/ /\ Len(Value(inst).kind) >= 2
             /\ Value(inst).kind[2] = "Logical (immediate)"
             /\ Value(inst).imm = Some(AllOnes64))
         => ~Value(inst).valid)

-----------------------------------------------------------------------------
(* Properties of DecodeBitMasks *)

\* The element length of (N, imms): the index of the highest one-bit of the
\* 7-bit number N:NOT(imms), computed on integers; -1 if that number is 0.
ElementLen(N, imms) ==
    IF N * 64 + (63 - imms) = 0 THEN -1
    ELSE CHOOSE len \in 0..6 : 2 ^ len <= N * 64 + (63 - imms)
                               /\ N * 64 + (63 - imms) < 2 ^ (len + 1)

\* The inputs the function is to reject.
Rejected(N, imms) ==
    \/ ElementLen(N, imms) < 1
    \/ imms % (2 ^ ElementLen(N, imms)) = 2 ^ ElementLen(N, imms) - 1

\* C8: DecodeBitMasks returns the all-ones sentinel when the element length is
\* less than 1 or imms masked to the element is all ones, and in no other case.
SentinelExactlyOnRejectedInputs ==
    HasValue(dbmRet) => (Value(dbmRet) = AllOnes64 <=> Rejected(dbmArgs[1], dbmArgs[2]))

\* A call with a 64-bit element (N = 1) whose imms is all ones returned the
\* sentinel.
SentinelExactlyOnRejectedInputsWitness ==
    /\ HasValue(dbmRet)
    /\ dbmArgs[1] = 1 /\ dbmArgs[2] = 63
    /\ Value(dbmRet) = AllOnes64

\* The reference value: bit i of the result is bit i of the replicated
\* element, whose bit j is one iff j rotated left by R falls among the S + 1
\* low bits.
Reference(N, imms, immr, regSize) ==
    {i \in 0..(regSize - 1) :
        ((i % (2 ^ ElementLen(N, imms))) + (immr % (2 ^ ElementLen(N, imms))))
            % (2 ^ ElementLen(N, imms)) <= imms % (2 ^ ElementLen(N, imms))}

\* C9: for every input that is not rejected, DecodeBitMasks returns the
\* reference value on regSize bits.
DecodeBitMasksIsReference ==
    (HasValue(dbmRet) /\ ~Rejected(dbmArgs[1], dbmArgs[2])) =>
        Value(dbmRet) = Reference(dbmArgs[1], dbmArgs[2], dbmArgs[3], dbmArgs[4])

\* C9 as amended: the same for every input that is not rejected and whose
\* element is no wider than the register.
DecodeBitMasksIsReferenceWithinRegister ==
    (/\ HasValue(dbmRet)
     /\ ~Rejected(dbmArgs[1], dbmArgs[2])
     /\ 2 ^ ElementLen(dbmArgs[1], dbmArgs[2]) <= dbmArgs[4]) =>
        Value(dbmRet) = Reference(dbmArgs[1], dbmArgs[2], dbmArgs[3], dbmArgs[4])

\* DecodeBitMasks(1, 0, 0, 64) returned 0x1.
DecodeBitMasksIsReferenceWitness ==
    dbmArgs = <<1, 0, 0, 64>> /\ dbmRet = Some({0})

-----------------------------------------------------------------------------
(* Properties of ExtractAddress *)

\* Bits 24k .. 24k+23 of a 64-bit value, as an integer (k = 0, 1, 2).
Limb(x, k) == FromBits({i - 24 * k : i \in x \cap ((24 * k)..(24 * k + 23))})

\* r = a + b modulo 2^64, by integer addition on 24-bit limbs.
IsSum64(a, b, r) ==
    /\ Limb(r, 0) = (Limb(a, 0) + Limb(b, 0)) % (2 ^ 24)
    /\ Limb(r, 1) = (Limb(a, 1) + Limb(b, 1) + (Limb(a, 0) + Limb(b, 0)) \div (2 ^ 24)) % (2 ^ 24)
    /\ Limb(r, 2) = (Limb(a, 2) + Limb(b, 2)
                       + (Limb(a, 1) + Limb(b, 1) + (Limb(a, 0) + Limb(b, 0)) \div (2 ^ 24))
                             \div (2 ^ 24)) % (2 ^ 16)

\* The offset an ADD / SUB (immediate) word encodes: imm12 << (12 * shift).
EncodedOffset(c) == Shl64(ToBits(bits(c, 21, 10), 12), 12 * bits(c, 23, 22))

\* Whether a word is an ADD / SUB (immediate): bits 28..24 are 10001.
IsAddSubImmediate(c) == bits(c, 28, 24) = 17

\* C10: with an immediate present the returned value is result + imm, which
\* for an ADD (immediate) is the base plus the encoded offset and for a SUB
\* (immediate) the base minus it; without an immediate it is 0.
ExtractAddressIsBasePlusOffset ==
    HasValue(eaRet) =>
        IF HasValue(Instruction(addCode, Add64(eaPc, {2})).rec.imm)
        THEN /\ IsSum64(Value(Instruction(adrCode, eaPc).rec.result),
                        Value(Instruction(addCode, Add64(eaPc, {2})).rec.imm), Value(eaRet))
             /\ (IsAddSubImmediate(addCode) /\ 30 \notin addCode) =>
                    IsSum64(Value(Instruction(adrCode, eaPc).rec.result),
                            EncodedOffset(addCode), Value(eaRet))
             /\ (IsAddSubImmediate(addCode) /\ 30 \in addCode) =>
                    IsSum64(Value(eaRet), EncodedOffset(addCode),
                            Value(Instruction(adrCode, eaPc).rec.result))
        ELSE Value(eaRet) = {}

\* ADRP at 0x1000 with page offset 0, then ADD #0x20, resolved to 0x1020.
ExtractAddressIsBasePlusOffsetWitness ==
    /\ eaPc = {12} /\ adrCode = AdrWord(1, 0, 0, 0) /\ addCode = AddSubImmWord(0, 0, 32)
    /\ Instruction(adrCode, eaPc).rec.result = Some({12})
    /\ eaRet = Some({5, 12})

-----------------------------------------------------------------------------
(* Properties of the switch evaluation *)

\* The 64-bit value of a 32-bit table entry read as a signed offset is e when
\* bit 31 is clear; when it is set the offset is -(m + 1) with m the entry's
\* complement within 32 bits.  IsOffsetFrom(base, e, r): r = base + offset.
IsOffsetFrom(base, e, r) ==
    IF 31 \in e
    THEN \E t \in {Add64(r, (0..31) \ e)} :
            IsSum64(r, (0..31) \ e, t) /\ IsSum64(t, {0}, base)
    ELSE IsSum64(base, e, r)

\* C11: whenever EvalSwitch or cs::evalswitch has returned, its target is
\* switchTable + SignExtend32(switchTable[switchCaseValue - 1]) modulo 2^64
\* (a first entry of -8 with case 1 gives switchTable - 8), and when both
\* have returned the two targets are equal.
SwitchTargetIsBasePlusSignedEntry ==
    /\ HasValue(evalSwitchRet) =>
          /\ IsOffsetFrom(switchTable, tableEntries[switchCaseValue], Value(evalSwitchRet).addr)
          /\ (switchCaseValue = 1 /\ tableEntries[1] = Hex(65535, 65528)) =>
                 IsSum64(Value(evalSwitchRet).addr, {3}, switchTable)
    /\ HasValue(csEvalswitchRet) =>
          IsOffsetFrom(switchTable, tableEntries[switchCaseValue], Value(csEvalswitchRet))
    /\ (HasValue(evalSwitchRet) /\ HasValue(csEvalswitchRet)) =>
          Value(evalSwitchRet).addr = Value(csEvalswitchRet)

\* Table at 0x1000 whose first entry is -8, case 1: both resolve to 0xFF8.
SwitchTargetIsBasePlusSignedEntryWitness ==
    /\ switchTable = {12} /\ switchCaseValue = 1 /\ tableEntries[1] = Hex(65535, 65528)
    /\ HasValue(evalSwitchRet) /\ Value(evalSwitchRet).addr = 3..11
    /\ csEvalswitchRet = Some(3..11)

-----------------------------------------------------------------------------
(* Properties of cs::findNth *)

\* Number of window words inside the byte budget.
BudgetWords == szBytes \div 4

Returns == {k \in DOMAIN window : window[k].id = "RET"}

\* The counted instructions: not a return, and accepted by match or by skip.
Counted ==
    {k \in DOMAIN window : /\ window[k].id \notin {"RET", "INVALID"}
                            /\ (window[k].id = "BL" \/ window[k].id \in skipIds)}

\* Whether k is the n-th counted instruction in address order.
IsNthCounted(k, n) == k \in Counted /\ Cardinality({j \in Counted : j <= k}) = n

\* Whether the scan meets more returns than the cap allows before word k.
ReturnCapHitBefore(k) ==
    retCount >= 0 /\ Cardinality({j \in Returns : j < k}) > retCount

FindNthDone == fnPc \in {"returned", "abortRets", "abortSkip", "abortSize"}

\* The instruction the iteration that is about to run decodes.
Current == InsnAt(ptr)

\* An iteration of the loop is taken in this step.
Iterates == fnPc = "loop" /\ ptr' = ptr + 4

\* C12: a returned value is what match produced for the n-th counted
\* instruction, which lies inside the budget; when that instruction exists
\* inside the budget, satisfies match and the return cap is not hit before
\* it, the scan returns; an instruction satisfying neither predicate leaves
\* the remaining count alone.  With two calls, no returns and no skip
\* predicate, n = 2 returns the second call's value and n = 3 aborts.
NthCountedMatchIsReturned ==
    /\ [](fnPc = "returned" =>
             \E k \in 1..BudgetWords :
                 IsNthCounted(k, nToRetOn) /\ window[k].id = "BL"
                     /\ fnRet = Some(window[k].imm * 4 + window[k].address))
    /\ [](FindNthDone =>
             \A k \in 1..BudgetWords :
                 (IsNthCounted(k, nToRetOn) /\ window[k].id = "BL" /\ ~ReturnCapHitBefore(k))
                     => fnPc = "returned")
    /\ []((FindNthDone /\ skipIds = {} /\ Returns \cap (1..BudgetWords) = {}
              /\ Cardinality(Counted \cap (1..BudgetWords)) = 2) =>
             /\ (nToRetOn = 2 => fnPc = "returned")
             /\ (nToRetOn = 3 => (fnPc = "abortSize" /\ fnRet = None)))
    /\ [][(Iterates /\ Current.id \notin {"BL"} \cup skipIds) => nCalls' = nCalls]_vars

\* BL, ADD, BL scanned for the second call: the value of the BL at 0x1008.
NthCountedMatchIsReturnedWitness ==
    /\ fnPc = "returned" /\ nToRetOn = 2 /\ szBytes = 12
    /\ window[1].id = "BL" /\ window[2].id = "ADD" /\ window[3].id = "BL"
    /\ fnRet = Some(4092)

\* C13: every predicate call, and the instruction a returned value comes
\* from, is at an address below addr + szBytes; with fewer than n counted
\* instructions inside the budget the scan ends in the "could not find ...
\* within size" abort unless the return cap aborted it earlier.
NothingBeyondTheByteBudget ==
    /\ \A i \in DOMAIN asked : asked[i][1] < window[1].address + szBytes
    /\ fnPc = "returned" =>
          /\ ptr - 4 < window[1].address + szBytes
          /\ fnRet = blConv(InsnAt(ptr - 4))
    /\ (FindNthDone /\ Cardinality(Counted \cap (1..BudgetWords)) < nToRetOn) =>
          /\ fnRet = None
          /\ \/ fnPc = "abortSize"
             \/ fnPc = "abortRets" /\ ReturnCapHitBefore(BudgetWords + 1)

\* The only call is the second word, the budget is one word: abort.
NothingBeyondTheByteBudgetWitness ==
    /\ fnPc = "abortSize" /\ nToRetOn = 1 /\ szBytes = 4 /\ retCount = -1
    /\ window[1].id = "ADD" /\ window[2].id = "BL"
    /\ fnRet = None

\* C14: an instruction failing match and satisfying skip decrements nCalls
\* exactly as a match does when nCalls > 1, and aborts without a value when
\* nCalls = 1; skip is never called on an instruction match accepts.
SkipCountsButIsNeverReturned ==
    /\ [][(Iterates /\ Current.id \in skipIds /\ ~HasValue(blConv(Current))) =>
             IF nCalls = 1
             THEN (fnPc' = "abortSkip" /\ fnRet' = None)
             ELSE (fnPc' = "loop" /\ nCalls' = nCalls - 1)]_vars
    /\ [][(Iterates /\ HasValue(blConv(Current)) /\ nCalls > 1) =>
             (fnPc' = "loop" /\ nCalls' = nCalls - 1)]_vars
    /\ [](\A i \in DOMAIN asked :
             asked[i][2] = "skip" => ~HasValue(blConv(InsnAt(asked[i][1]))))

\* BLR, BLR with n = 2 and BLR as the skip predicate: the first BLR is
\* counted, the second aborts the scan.
SkipCountsButIsNeverReturnedWitness ==
    /\ fnPc = "abortSkip" /\ nToRetOn = 2 /\ skipIds = {"BLR"} /\ nCalls = 1
    /\ window[1].id = "BLR" /\ window[2].id = "BLR"
    /\ ptr = window[2].address + 4
    /\ fnRet = None

\* The returns the scan has decoded so far.
ReturnsScanned == {k \in Returns : window[k].address < ptr}

\* C15: the scan aborts on a return exactly when it is the (retCount+1)-th
\* one and retCount >= 0; with retCount = -1 it never does; no predicate is
\* called on a return and a return leaves nCalls unchanged.
ReturnCapAbortsOnTheNextReturn ==
    /\ [](fnPc = "abortRets" =>
             (retCount >= 0 /\ Cardinality(ReturnsScanned) = retCount + 1))
    /\ []((fnPc # "abortRets" /\ retCount >= 0) => Cardinality(ReturnsScanned) <= retCount)
    /\ [](\A i \in DOMAIN asked : InsnAt(asked[i][1]).id # "RET")
    /\ [][(Iterates /\ Current.id = "RET") =>
             /\ nCalls' = nCalls /\ asked' = asked
             /\ fnPc' = IF rCount = 0 THEN "abortRets" ELSE "loop"]_vars

\* RET, RET, BL with a cap of one return: the second return aborts.
ReturnCapAbortsOnTheNextReturnWitness ==
    /\ fnPc = "abortRets" /\ retCount = 1 /\ nToRetOn = 1
    /\ window[1].id = "RET" /\ window[2].id = "RET" /\ window[3].id = "BL"
    /\ ptr = window[2].address + 4

\* The bytes the scan has moved past, and the iterations that took.
Consumed == ptr - window[1].address

\* C28: every iteration of the loop takes exactly 4 bytes off the budget,
\* whether the word decodes or not; consumed + remaining = szBytes; the
\* remaining budget is a non-negative multiple of 4; a word that does not
\* decode changes neither nCalls nor rCount; the loop ends after at most
\* szBytes / 4 iterations.
EveryIterationConsumesFourBytes ==
    /\ [](fnPc # "entry" =>
             /\ Consumed + sz = szBytes
             /\ sz >= 0 /\ sz % 4 = 0
             /\ Consumed \div 4 <= szBytes \div 4
             /\ (fnPc = "abortSize" => (sz = 0 /\ Consumed \div 4 = szBytes \div 4)))
    /\ [][fnPc = "loop" =>
             /\ (fnPc' = "abortSize" => ~(sz > 0))
             /\ (fnPc' # "abortSize" => (sz' = sz - 4 /\ Consumed' = Consumed + 4))
             /\ (Current.id = "INVALID" =>
                    (nCalls' = nCalls /\ rCount' = rCount /\ asked' = asked
                        /\ fnPc' \in {"loop", "abortSize"}))]_vars

\* Three undecodable words under a budget of three words: the scan steps
\* over each and runs out of bytes with both counts as they were set.
EveryIterationConsumesFourBytesWitness ==
    /\ fnPc = "abortSize" /\ szBytes = 4 * WindowLen /\ sz = 0
    /\ \A k \in 1..WindowLen : window[k].id = "INVALID"
    /\ Consumed = szBytes /\ nCalls = nToRetOn /\ rCount = retCount

-----------------------------------------------------------------------------
(* Properties of the branch decoders *)

\* The byte offset a branch word encodes in its field c[hi:lo]: the field
\* sign-extended from its top bit and multiplied by 4, as an int64.
SignedOffset(c, hi, lo) ==
    {i - lo + 2 : i \in c \cap (lo..hi)} \cup (IF hi \in c THEN (hi - lo + 3)..63 ELSE {})

\* C16: the label of every record decoded as B, BL, B.cond, CBZ / CBNZ or
\* TBZ / TBNZ is the instruction's address plus the sign-extended imm26,
\* imm19 or imm14 times 4.
BranchLabelIsAbsoluteTarget ==
    (ctorOutcome = "constructed" /\ Len(Value(inst).kind) = KindLevels) =>
        /\ Value(inst).kind[3] \in {"B", "BL"} =>
              /\ HasValue(Value(inst).label)
              /\ IsSum64(iaddr, SignedOffset(code, 25, 0), Value(Value(inst).label))
        /\ Value(inst).kind[3] = "B.cond" =>
              /\ HasValue(Value(inst).label)
              /\ IsSum64(iaddr, SignedOffset(code, 23, 5), Value(Value(inst).label))
        /\ Value(inst).kind[2] = "Compare and branch (immediate)" =>
              /\ HasValue(Value(inst).label)
              /\ IsSum64(iaddr, SignedOffset(code, 23, 5), Value(Value(inst).label))
        /\ Value(inst).kind[3] \in {"TBZ", "TBNZ"} =>
              /\ HasValue(Value(inst).label)
              /\ IsSum64(iaddr, SignedOffset(code, 18, 5), Value(Value(inst).label))

-----------------------------------------------------------------------------
(* Determinism of the constructor *)

-----------------------------------------------------------------------------
(* Properties of Counter *)

\* The map m with the entry of a set to n (created if absent), or erased
\* when n = 0; every other entry as in m.
WithCount(m, a, n) ==
    [b \in (IF n = 0 THEN DOMAIN m \ {a} ELSE DOMAIN m \cup {a}) |->
        IF b = a THEN n ELSE m[b]]

\* The count of a in m, 0 without an entry.
CountIn(m, a) == IF a \in DOMAIN m THEN m[a] ELSE 0

\* C18: after every call the process is running and the map is the one
\* before the call with only the entry of the call's address changed:
\* add raises its count by one (creating it at 1), remove lowers a count
\* above 1 by one, erases any other entry and changes nothing without an
\* entry, get changes nothing and returns the count or 0.
CounterCallsActOnOneEntry ==
    /\ ~crashed
    /\ HasValue(lastCall) =>
          LET c == Value(lastCall)
              n == CountIn(c.before, c.addr)
          IN /\ c.op = "add" => addrRefCount = WithCount(c.before, c.addr, n + 1)
             /\ c.op = "remove" =>
                    addrRefCount = WithCount(c.before, c.addr, IF n > 1 THEN n - 1 ELSE 0)
             /\ c.op = "get" => (addrRefCount = c.before /\ c.ret = n)

-----------------------------------------------------------------------------
(* Properties of CountPointer *)

\* The live objects that own p.  A move construction passes the ownership
\* of the source on to the new object.
Owners(p) == {o \in Objs : objState[o] = "live" /\ objOwns[o] /\ objPtr[o] = p}

\* C19: the process is running and, for every non-null address p,
\* Counter::get(p) is the number of live CountPointer objects that own p.
CountIsNumberOfLiveOwners ==
    /\ ~crashed
    /\ \A p \in Addrs : get(addrRefCount, p) = Cardinality(Owners(p))

-----------------------------------------------------------------------------
(* Properties of SafePtr *)

\* C20: every GC_free is of a handle the GC still has allocated (it is not
\* freed a second time) and no other live SafePtr owns the handle at that
\* moment.
HandleFreedOnlyByLastHolder ==
    HasValue(lastFree) => (Value(lastFree).allocated /\ Value(lastFree).others = {})


\* The wrapper the copies share.
SharedHandle == CHOOSE h \in Addrs : \E o \in Objs : objPtr[o] = h

\* C30: under every interleaving of the destructors' count check, free and
\* Counter::remove, the wrapper is freed exactly once, by the last holder:
\* no free is of a wrapper already freed or still held by another copy, and
\* once every copy is destroyed the wrapper has been freed.
WrapperFreedExactlyOnce ==
    /\ HasValue(lastFree) => (Value(lastFree).allocated /\ Value(lastFree).others = {})
    /\ (\A o \in Objs : dtorPc[o] \in {"idle", "done"}) => SharedHandle \notin DOMAIN gcHeap


-----------------------------------------------------------------------------
(* Properties of the memo and of the worklist *)

\* The nodes an expansion linked: its taken-branch and fall-through successors.
Linked(k) == {nodes[expansions[k].node].branch, nodes[expansions[k].node].noBranch} \ {0}

\* The expansion that first reached node n, the one that created it.
FirstEncounter(n) ==
    CHOOSE j \in 1..Len(expansions) :
        n \in Linked(j) /\ \A i \in 1..(j - 1) : n \notin Linked(i)

\* The dependency map node n was pushed with.
PushedWith(n) ==
    IF n = 1 THEN InitialDependencyMap ELSE expansions[FirstEncounter(n)].post

\* The worklist under its top entry.
Pending == SubSeq(parseState.frontier, 1, Len(parseState.frontier) - 1)

\* The node on top of the worklist and its instruction.
Top == parseState.frontier[Len(parseState.frontier)].node
TopInst == nodes[Top].inst

\* A step of the driver loop that did not abort.
Expands == drv = "loop" /\ drv' = "loop" /\ Len(expansions') = Len(expansions) + 1

\* C21: a FindOrCreateInstruction call for a memoized address returns the
\* node the memo holds and changes nothing.  Over an expansion the memo keeps
\* every entry it had, the pending worklist entries keep their place and their
\* snapshot, every entry pushed is for a node allocated by this expansion, no
\* existing node is decoded again, and the successors attached are the nodes
\* the memo holds for their addresses; hence every node is expanded with the
\* dependency map it was pushed with at its first encounter.
MemoHitChangesNothing ==
    /\ [](\A k \in 1..Len(expansions) : expansions[k].pre = PushedWith(expansions[k].node))
    /\ [][Expands =>
            /\ \A a \in DOMAIN parseState.codeToInstTree :
                   /\ a \in DOMAIN parseState.codeToInstTree'
                   /\ parseState.codeToInstTree'[a] = parseState.codeToInstTree[a]
            /\ Len(parseState.frontier') >= Len(Pending)
            /\ SubSeq(parseState.frontier', 1, Len(Pending)) = Pending
            /\ \A i \in (Len(Pending) + 1)..Len(parseState.frontier') :
                   parseState.frontier'[i].node > Len(nodes)
            /\ \A n \in 1..Len(nodes) : nodes'[n].inst = nodes[n].inst
            /\ (nodes'[Top].branch # 0) =>
                   nodes'[Top].branch = parseState.codeToInstTree'[Value(TopInst.label)]
            /\ (nodes'[Top].noBranch # 0) =>
                   nodes'[Top].noBranch = parseState.codeToInstTree'[Add64(TopInst.addr, {2})]
       ]_vars

\* An expansion reached a node that an earlier expansion had created and that
\* was still pending, arriving with a different dependency map; the node was
\* later expanded with the map of its first encounter.
MemoHitChangesNothingWitness ==
    \E k, l \in 1..Len(expansions) :
        /\ k < l
        /\ expansions[l].node \in Linked(k)
        /\ FirstEncounter(expansions[l].node) < k
        /\ expansions[k].post # PushedWith(expansions[l].node)
        /\ expansions[l].pre = PushedWith(expansions[l].node)


-----------------------------------------------------------------------------
(* Properties of the successors an expansion attaches *)

\* The expansions of parsed, valid instructions.
ParsedValid == {k \in 1..Len(expansions) : ExpInst(k).parsed /\ ExpInst(k).valid}

\* The mnemonic: the label of the last level of a parsed instruction.
Mnemonic(i) == i.kind[KindLevels]

\* The successors node n was given.
NoBranchOf(k) == nodes[expansions[k].node].noBranch
BranchOf(k) == nodes[expansions[k].node].branch

TakenBranchForEveryLabel ==
    \A k \in ParsedValid \cap Processed :
        /\ (BranchOf(k) # 0) <=> HasValue(ExpInst(k).label)
        /\ (BranchOf(k) # 0) =>
               /\ nodes[BranchOf(k)].inst.addr = Value(ExpInst(k).label)
               /\ (FirstEncounter(BranchOf(k)) = k) =>
                      (PushedWith(BranchOf(k)) = expansions[k].post)

\* An instruction PopulateChildren returns on before processing it.
Stops(i) == ~i.parsed \/ ~i.valid \/ isReturn(i)

\* C24: the expansion of a node whose instruction is not fully parsed, is
\* invalid or is a return attaches no successor, pushes nothing on the
\* worklist, adds nothing to the memo or to the function candidates, leaves
\* the dependency map as the snapshot installed for it, and does not abort:
\* the step only removes the node's entry from the worklist.
StoppedExpansionChangesNothing ==
    [][(/\ drv = "loop"
        /\ parseState.frontier # <<>>
        /\ expansions' # expansions
        /\ Stops(TopInst)) =>
            /\ nodes' = nodes
            /\ parseState'.frontier = Pending
            /\ parseState'.codeToInstTree = parseState.codeToInstTree
            /\ parseState'.functionCandidates = parseState.functionCandidates
            /\ parseState'.dependencyMap = parseState.frontier[Len(parseState.frontier)].depMap
            /\ drv' = "loop"
       ]_vars

\* A finished run that expanded a partially decoded indirect branch and a
\* return, each with a dependency map that was no longer the initial one, and
\* gave neither a successor.
StoppedExpansionChangesNothingWitness ==
    /\ drv = "done"
    /\ \E j, k \in 1..Len(expansions) :
          /\ ~ExpInst(j).parsed /\ ExpInst(j).valid /\ ExpInst(j).branchType = "INDIR"
          /\ ExpInst(k).parsed /\ ExpInst(k).valid /\ isReturn(ExpInst(k))
          /\ \A x \in {j, k} :
                 /\ BranchOf(x) = 0 /\ NoBranchOf(x) = 0
                 /\ expansions[x].post = expansions[x].pre
                 /\ expansions[x].pre # InitialDependencyMap

-----------------------------------------------------------------------------
(* Properties of the order of expansion *)

\* The nodes expanded so far, and the allocated nodes not expanded yet.  Nodes
\* are numbered in the order of their allocation, which is the order of the
\* pushes.
Expanded == {expansions[k].node : k \in 1..Len(expansions)}
Unexpanded == (1..Len(nodes)) \ Expanded

\* The most recently pushed of a set of nodes.
Latest(S) == CHOOSE n \in S : \A m \in S : m <= n

\* The position of node n in the order of expansion.
Pos(n) == CHOOSE k \in 1..Len(expansions) : expansions[k].node = n

\* Node n is f, or was created by the expansion of a node first reached from f.
RECURSIVE FirstReachedFrom(_, _)
FirstReachedFrom(n, f) ==
    (n = f) \/ (n > f /\ FirstReachedFrom(expansions[FirstEncounter(n)].node, f))

\* Expansion k created both of its successors.
CreatedBoth(k) ==
    /\ BranchOf(k) # 0 /\ NoBranchOf(k) # 0 /\ BranchOf(k) # NoBranchOf(k)
    /\ FirstEncounter(BranchOf(k)) = k /\ FirstEncounter(NoBranchOf(k)) = k

\* C25: every step of the driver expands the most recently pushed node that
\* has not been expanded, starting from the dependency map stored with it;
\* the snapshot of every pending entry is the map its node was pushed with,
\* whatever has been expanded since; and once the taken-branch successor an
\* expansion created has been expanded, the fall-through successor it created
\* and every node first reached from it have been expanded before.
MostRecentlyPushedIsExpandedNext ==
    /\ [](\A i \in 1..Len(parseState.frontier) :
              parseState.frontier[i].depMap = PushedWith(parseState.frontier[i].node))
    /\ [](\A k \in 1..Len(expansions) :
              (CreatedBoth(k) /\ BranchOf(k) \in Expanded) =>
                  \A n \in NoBranchOf(k)..Len(nodes) :
                      FirstReachedFrom(n, NoBranchOf(k)) =>
                          (n \in Expanded /\ Pos(n) < Pos(BranchOf(k))))
    /\ [][Expands =>
              /\ expansions'[Len(expansions')].node = Latest(Unexpanded)
              /\ expansions'[Len(expansions')].pre =
                     parseState.frontier[Len(parseState.frontier)].depMap
         ]_vars

\* A finished run in which an expansion created both successors, the
\* fall-through successor led to a further new node, the dependency map was
\* changed on the way, and the taken-branch successor was expanded last of
\* the three with the map of the expansion that created it.
MostRecentlyPushedIsExpandedNextWitness ==
    /\ drv = "done"
    /\ \E k \in 1..Len(expansions) :
          /\ CreatedBoth(k)
          /\ \E n \in (NoBranchOf(k) + 1)..Len(nodes) :
                 /\ FirstReachedFrom(n, NoBranchOf(k))
                 /\ Pos(NoBranchOf(k)) < Pos(n) /\ Pos(n) < Pos(BranchOf(k))
                 /\ expansions[Pos(n)].post # expansions[k].post
          /\ expansions[Pos(BranchOf(k))].pre = expansions[k].post

-----------------------------------------------------------------------------
(* Properties of ADR and ADRP *)

\* The 21-bit immediate immhi:immlo of a PC-relative word, shifted left by
\* shift bits and sign-extended to 64 bits.
AdrImmediate(c, shift) ==
    {i - 29 + shift : i \in c \cap (29..30)} \cup {i - 3 + shift : i \in c \cap (5..23)}
        \cup (IF 23 \in c THEN (21 + shift)..63 ELSE {})

\* C26: the result of every ADR word is address + SignExtend(immhi:immlo, 21)
\* and that of every ADRP word is the address with its low 12 bits cleared
\* plus SignExtend(immhi:immlo, 21) * 4096, in 64-bit arithmetic.
AdrResultIsBasePlusImmediate ==
    (/\ ctorOutcome = "constructed"
     /\ Len(Value(inst).kind) = KindLevels
     /\ Value(inst).kind[2] = pcRelAddr) =>
        /\ HasValue(Value(inst).result)
        /\ (Value(inst).kind[3] = "ADR") =>
               IsSum64(iaddr, AdrImmediate(code, 0), Value(Value(inst).result))
        /\ (Value(inst).kind[3] = "ADRP") =>
               IsSum64(iaddr \ (0..11), AdrImmediate(code, 12), Value(Value(inst).result))

-----------------------------------------------------------------------------
(* Properties of the compare aliases *)

CompareAliases ==
    {"CMP (immediate)", "CMN (immediate)", "CMP (shifted register)", "CMN (shifted register)"}

\* The expansions of instructions decoded as CMP or CMN.
CompareExpansions == {k \in ParsedValid : Mnemonic(ExpInst(k)) \in CompareAliases}

\* C27: a record decoded as CMP or CMN (from an ADDS / SUBS word whose
\* destination field is 31, in the immediate, shifted-register and
\* extended-register forms) has no destination register, its sources are the
\* Rn field and, in the register forms, the Rm field, and its expansion leaves
\* the dependency set of every register as it was.
CompareHasNoDestination ==
    \A k \in CompareExpansions :
        /\ bits(ReadWord(ExpAddr(k)), 4, 0) = 31
        /\ 29 \in ReadWord(ExpAddr(k))
        /\ ExpInst(k).Rd = -1 /\ ExpInst(k).Rd2 = -1
        /\ ExpInst(k).Rs[1] = bits(ReadWord(ExpAddr(k)), 9, 5)
        /\ IF ExpInst(k).kind[2] = addSubImm
           THEN ExpInst(k).numSourceRegisters = 1
           ELSE /\ ExpInst(k).numSourceRegisters = 2
                /\ ExpInst(k).Rs[2] = bits(ReadWord(ExpAddr(k)), 20, 16)
        /\ \A r \in Registers : expansions[k].post[r] = expansions[k].pre[r]

\* A run that expanded an immediate compare and an extended-register compare
\* after the dependency map had changed, the latter with two sources whose
\* sets differed, and the map came out of both as it went in.
CompareHasNoDestinationWitness ==
    \E j, k \in CompareExpansions :
        /\ ExpInst(j).kind[2] = addSubImm
        /\ ExpInst(k).kind[2] = "Add/subtract (extended register)"
        /\ expansions[j].pre # InitialDependencyMap
        /\ expansions[k].pre[ExpInst(k).Rs[1]] # expansions[k].pre[ExpInst(k).Rs[2]]
        /\ Cardinality(expansions[k].pre[ExpInst(k).Rs[1]]) = 2
        /\ expansions[j].post = expansions[j].pre
        /\ expansions[k].post = expansions[k].pre

-----------------------------------------------------------------------------
(* Properties of the register slots of a decoded record *)

\* C29: a record that is parsed and valid holds a register index 0..31 in
\* each of its first numSourceRegisters source slots and in each present
\* destination, so ProcessRegisterDependencies does not reach its abort on
\* it.
DecodedRegistersAreInRange ==
    (ctorOutcome = "constructed" /\ Value(inst).parsed /\ Value(inst).valid) =>
        /\ Value(inst).numSourceRegisters <= Len(Value(inst).Rs)
        /\ \A j \in 1..Value(inst).numSourceRegisters : Value(inst).Rs[j] \in 0..31
        /\ Value(inst).Rd \in {-1} \cup (0..31)
        /\ Value(inst).Rd2 \in {-1} \cup (0..31)
        /\ ~ProcessRegisterDependencies(Value(inst), InitialDependencyMap).abort

\* A store whose offset is a register: two sources and the base register
\* as destination.
DecodedRegistersAreInRangeWitness ==
    /\ ctorOutcome = "constructed" /\ Value(inst).parsed /\ Value(inst).valid
    /\ Value(inst).kind[2] = "Load/store register (register offset)"
    /\ Value(inst).numSourceRegisters = 2
    /\ Value(inst).Rs[1] = bits(code, 4, 0) /\ Value(inst).Rs[2] = bits(code, 20, 16)
    /\ Value(inst).Rd = bits(code, 9, 5)

=============================================================================
